---- MODULE Spec2Model ----
(***************************************************************************)
(* VRClog Companion: the live-stream hub, the notifier and the ingest      *)
(* pipeline (source -> ingester -> store -> on_insert side effects), each  *)
(* modelled from its Go source as a state machine.                         *)
(*                                                                         *)
(*   SpecHub     api.Hub: Run loop, Subscribe, Unsubscribe, Publish, Stop  *)
(*   SpecNotify  notify.Notifier: Run loop, Enqueue, flush, timers, Stop   *)
(*   SpecIngest  ingest.Ingester over store.InsertEvent and the main       *)
(*               package's on_insert callback (derive, notifier, hub)      *)
(*                                                                         *)
(* Every component owns its variables; a specification leaves the other    *)
(* components' variables at their initial values.                          *)
(***************************************************************************)
EXTENDS Integers, Sequences, FiniteSets, TLC

(***************************************************************************)
(* Bounds of the model.                                                    *)
(***************************************************************************)
\* Hub.subscriberBufferSize (default 16, WithHubSubscriberBufferSize)
SubBuf == 1
\* capacity of Hub.broadcast (64 in NewHub)
BroadcastCap == 2
\* Publish calls with a non-nil event
MaxPublish == 3
\* Unsubscribe calls per subscriber
MaxUnsub == 2

\* ---- notifier ----
\* capacity of Notifier.eventCh (64 in NewNotifier)
EventChCap == 1
\* Notifier.maxQueueSize (DefaultMaxQueueSize 100, WithMaxQueueSize)
MaxQueueSize == 1
\* Notifier.batchDelay in seconds (batchDelaySec, default 3)
BatchDelay == 1
\* the Retry-After a sender reports with SendRetryable, in seconds (0: none)
RetryAfter == 2
\* Enqueue calls with a non-nil event
MaxEnqueue == 2
\* the clock runs from 0 to MaxTime seconds
MaxTime == 4
BatchQueueSize == 2
BatchEnqueue == 3
StopEnqueue == 1
MaxEmit == 3
SrcBuf == 1
DrainEmit == 2
\* store.defaultLimit and store.maxLimit (100 and 500 in the source), and the
\* largest number of rows of the events table
defaultLimit == 1
maxLimit == 2
MaxRows == 3
\* api.missedEventsPageSize and api.missedEventsMaxPages (100 and 5 in the
\* source), and the number of heartbeats
missedEventsPageSize == 1
missedEventsMaxPages == 2
MaxBeats == 1
LiveEvents == 1
\* the events the ingester inserts and publishes beside one stream connection
MaxLive == 2
\* the source adapter: its channel sizes (64 and 16 by default in the source)
\* and what the watcher sends
eventBufferSize == 1
errorBufferSize == 1
MaxUpEvents == 3
MaxUpErrors == 2
\* the limiter: the largest MaxFailures, the lockout in seconds, the requests
\* made and the seconds that pass
MaxFailures == 2
LockoutSeconds == 2
MaxRequests == 4
MaxAuthTime == 4
\* the requests sent to the paths of a server
MaxRouted == 3

\* the subscribers that ever call Subscribe
Subs == {1, 2}
\* the tasks that call Hub.Stop (one call each, at any time: one after another or together)
Stoppers == {1, 2}

\* the nil *Subscriber / nil *event.Event
Nil == 0

(***************************************************************************)
(* State.                                                                  *)
(***************************************************************************)
VARIABLES
    \* ---- api.Hub ----
    hubPc,          \* Hub.Run: "select" | "bcast" (inside for sub := range clients) | "stopped"
    clients,        \* Run's local map clients
    broadcast,      \* contents of the buffered channel h.broadcast
    bcastEv,        \* e of the broadcast case being delivered
    bcastLeft,      \* subscribers the range loop has not visited yet
    stopCloses,     \* how many times h.stop was closed
    stopOnce,       \* sync.Once of Hub.Stop has run
    subState,       \* per subscriber: "none" | "live" (Subscribe returned it)
    subVia,         \* which select case of Subscribe returned it
    subEvents,      \* contents of sub.events
    eventsCloses,   \* how many times sub.events was closed
    doneCloses,     \* how many times sub.done was closed
    panicked,       \* a close of a closed channel or a send on a closed channel happened
    \* callers and observers of the hub
    published,      \* number of Publish calls made (events are numbered 1, 2, ...)
    pubDropped,     \* events Publish dropped (default case)
    pubLost,        \* events Publish discarded through the stopped case
    offered,        \* per subscriber: events the loop dequeued while it was in clients
    dropLog,        \* [sub, ev, len]: the loop dropped ev for sub, whose buffer held len
    recv,           \* per subscriber: events its reader has taken from sub.events
    unsubCalls,     \* per subscriber: Unsubscribe calls made
    stopPc,         \* per stopper task: "idle" | "wait" (in <-h.stopped) | "returned"
    \* ---- notify.Notifier ----
    nPc,            \* Notifier.Run: "select" | "send" (inside sender.Send) | "done" (returned)
    finalFlush,     \* the flush in progress was called from the stopCh or ctx.Done case
    eventCh,        \* contents of the buffered channel n.eventCh
    flushCh,        \* n.flushCh (capacity 1) holds a token
    stopChClosed,   \* n.stopCh is closed
    nStopOnce,      \* sync.Once of Notifier.Stop has run
    ctxDone,        \* the context given to Run is cancelled
    queue,          \* n.queue
    timerHandle,    \* n.timerHandle # nil
    timers,         \* deadlines of the timers afterFunc armed that have not fired yet
    disabled,       \* n.status.Disabled
    disabledReason, \* n.status.DisabledReason
    disabledAt,     \* n.status.DisabledAt
    backoffAttempt, \* n.backoffAttempt
    backoffUntil,   \* n.backoffUntil (0: the zero time)
    sendLeft,       \* payloads of the flush in progress not yet sent, first one in flight
    now,            \* time.Now(), in seconds
    \* callers and observers of the notifier
    enqPc,          \* the Enqueue caller: "idle" | "checked" (past the disabled check and the filter)
    enqEv,          \* the event of the Enqueue call in progress
    enqueued,       \* number of Enqueue calls made (events are numbered 1, 2, ...)
    filter,         \* n.filter
    batch,          \* events of the flush in progress (its local events)
    sendStart,      \* instant of the latest call of sender.Send (-1: none yet)
    notBefore,      \* latest (instant of a Retryable result + its retry_after > 0)
    fatalAt,        \* instant of the first Fatal result (-1: none yet)
    sentAfterFatal, \* sender.Send was called after a Fatal result
    inFlight,       \* calls of sender.Send that have not returned
    failed,         \* events of batches answered Retryable and in no later Send
    skipped,        \* a flush found the backoff window open since the last send
    overflowed,     \* handleEvent has dropped old events ("queue overflow, dropped old events")
    replaced,       \* coalesceQueueLocked has replaced an older event by a newer one
    \* what a notifier is built with and the environment it runs in
    maxQueueSize,   \* n.maxQueueSize
    enqLimit,       \* number of Enqueue calls the callers make
    senderResults,  \* the results n.sender.Send may return
    stopCallers,    \* the tasks that call Notifier.Stop
    \* callers of Notifier.Stop
    nStopPc,        \* per task: "idle" | "wait" (in Stop's select) | "nil" | "ctxErr" (returned)
    nPanicked,      \* n.stopCh was closed a second time
    \* ---- ingest.Ingester, store.Store, derive.State ----
    ingPc,          \* Ingester.Run: "start" | "run" (at the select) | "returned"
    eventsCh,       \* Run's eventsCh: "open" | "closed" (by the source) | "nil"
    errsCh,         \* Run's errsCh: "open" | "closed" (by the source) | "nil"
    firstClosed,    \* Run's local firstClosed
    ingCtxDone,     \* the context given to Ingester.Run is cancelled
    runErr,         \* what Run returned ("" while it runs)
    restarted,      \* the process was started a second time on the same database
    emitted,        \* number of events and errors the source has delivered
    rows,           \* the events table, in rowid order
    parseFailures,  \* dedupe keys of the parse_failures table
    currentWorld,   \* derive.State.currentWorld (NilPtr: none)
    players,        \* keys of derive.State.players
    \* observers of derive.State
    upTick,         \* flips at every call of Update
    upEv,           \* the event of the latest Update call (NoCall: none yet)
    upRet,          \* what the latest Update call returned: [derived, prev]
    joinedSince,    \* keys of the player_join events processed since the latest world_join
    notifierOn,     \* main: notifier != nil (a webhook is configured)
    \* the source's channels, as the source fills them
    evBuf,          \* events sent on the events channel and not yet received by Run
    erBuf,          \* errors sent on the errors channel and not yet received by Run
    drained,        \* Run received a buffered item after the other channel variable was nil
    \* what an ingester is given
    srcCap,         \* buffer size of the source's channels (0: unbuffered)
    emitLimit,      \* number of items the source delivers
    \* observers of the ingester
    calls,          \* the InsertEvent calls, in order: [key, valid, dbFail, id, inserted, err]
    callbacks,      \* IDs of the events on_insert was called with, in order
    deriveUpdates,  \* IDs of the events given to deriveState.Update, in order
    pubCalls,       \* IDs of the events given to hub.Publish, in order
    callsBefore,    \* number of InsertEvent calls made before the restart
    enqCalls,       \* IDs of the events whose derived event was given to notifier.Enqueue
    \* ---- store: cursor.go, Store.QueryEvents ----
    curIn,          \* the string given to decodeCursor
    curOut,         \* what decodeCursor returned for it (NoCall: not called yet)
    tmA,            \* the Ts of one event given to eventToRow
    tmB,            \* the Ts of another event given to eventToRow
    rowA,           \* the ts column eventToRow wrote for tmA (NoCall: not called yet)
    rowB,           \* the ts column eventToRow wrote for tmB
    table,          \* the events table as QueryEvents reads it: rows [ID, Ts, Type]
    qFilter,        \* the QueryFilter of the caller's first call
    qCursor,        \* the Cursor of the next call (NilPtr: nil)
    qResult,        \* what the latest QueryEvents call returned (NoCall: none yet)
    qPages,         \* the Items of the calls made so far, in order
    \* ---- api.Server.handleStream ----
    sPc,            \* handleStream: "idle" | "replay" | "subscribe" | "live" | "unsub" | "returned"
    sLastID,        \* lastEventID (NoCall: no request yet)
    sCursor,        \* filter.Cursor of sendMissedEvents
    sPage,          \* page of sendMissedEvents
    sFrames,        \* what the handler has written before its loop: frames and comments
    sStatus,        \* status of the response (0: nothing sent yet)
    sBeats,         \* heartbeat comments written
    \* ---- api.AuthFailureLimiter, api.basicAuthMiddleware ----
    failures,       \* afl.failures: per address NilPtr or [count, firstAt, lockedAt] (0: the zero time)
    maxFails,       \* afl.maxFails
    window,         \* afl.window, seconds
    lockout,        \* afl.lockout, seconds
    aNow,           \* time.Now(), seconds
    reqPc,          \* basicAuthMiddleware per request: "idle" | "checked" (past the lockout check)
    reqIn,          \* the request past the lockout check: its address and credentials
    aLast,          \* the last response of the middleware (NoCall: none yet)
    aSince,         \* history: per address, the instants of its failed authentications since its last success
    aTotal,         \* history: per address, the number of its failed authentications
    aCount,         \* requests made
    \* ---- sseauth ----
    tkGen,          \* the call of GenerateToken: its arguments and what it returned (NoCall: none yet)
    tkVal,          \* the last call of ValidateToken on that token: its arguments and what it returned
    \* ---- ingest.VRClogSource.Start ----
    adPc,           \* the forwarding task: "select" | "sendEv" (at eventCh <- ev) | "exited"
    adEvents,       \* events != nil
    adErrs,         \* errs != nil
    adHand,         \* ev, the event being sent (Nil: none)
    upClosed,       \* the watcher has closed vrcEvents and vrcErrs
    adCtxDone,      \* ctx of Start is cancelled
    srcEventCh,     \* eventCh
    srcErrCh,       \* errCh
    srcClosed,      \* eventCh and errCh are closed
    outEv,          \* history: events read from eventCh
    outEr,          \* history: errors read from errCh
    recvEv,         \* history: events received from the watcher
    recvEr,         \* history: errors received from the watcher
    droppedErrors,  \* droppedErrors
    lostErrors,     \* history: errors in hand when the task returned on ctx.Done
    \* ---- the ingester beside a stream handler ----
    gPending,       \* id of the row InsertEvent has written and on_insert has not published yet (Nil: none)
    \* ---- api.Server ----
    srv,            \* the server: authEnabled, sseSecret, and whether it has an auth-failure limiter
    \* ---- the request of a stream handler ----
    sCtx            \* r.Context() of the /stream request is done (the client went away)

Range(q) == {q[i] : i \in 1..Len(q)}

hubVars == <<hubPc, clients, broadcast, bcastEv, bcastLeft, stopCloses, stopOnce,
             subState, subVia, subEvents, eventsCloses, doneCloses, panicked,
             published, pubDropped, pubLost, offered, dropLog, recv, unsubCalls,
             stopPc>>

sendObs == <<batch, sendStart, notBefore, fatalAt, sentAfterFatal, inFlight, failed>>

queueObs == <<overflowed, replaced>>

notifyEnv == <<maxQueueSize, enqLimit, senderResults, stopCallers>>

stopObs == <<nStopPc, nPanicked>>

notifyVars == <<nPc, finalFlush, eventCh, flushCh, stopChClosed, nStopOnce, ctxDone,
                queue, timerHandle, timers, disabled, disabledReason, disabledAt,
                backoffAttempt, backoffUntil, sendLeft, now, enqPc, enqEv, enqueued,
                filter, sendObs, skipped, queueObs, notifyEnv, stopObs>>

deriveObs == <<upTick, upEv, upRet, joinedSince>>

srcVars == <<evBuf, erBuf, drained>>

ingestEnv == <<srcCap, emitLimit>>

cursorVars == <<curIn, curOut, tmA, tmB, rowA, rowB>>

queryVars == <<table, qFilter, qCursor, qResult, qPages>>

streamVars == <<sPc, sLastID, sCursor, sPage, sFrames, sStatus, sBeats>>

authEnv == <<maxFails, window, lockout>>

authVars == <<failures, aNow, reqPc, reqIn, aLast, aSince, aTotal, aCount, authEnv>>

tokenVars == <<tkGen, tkVal>>

adapterVars == <<adPc, adEvents, adErrs, adHand, upClosed, adCtxDone, srcEventCh, srcErrCh,
                 srcClosed, outEv, outEr, recvEv, recvEr, droppedErrors, lostErrors>>

gapVars == <<gPending>>

serverVars == <<srv>>

cancelVars == <<sCtx>>

lateVars == <<tokenVars, adapterVars, gapVars, serverVars, cancelVars>>

apiVars == <<cursorVars, queryVars, streamVars, authVars, lateVars>>

ingestVars == <<ingPc, eventsCh, errsCh, firstClosed, ingCtxDone, runErr, restarted,
                emitted, rows, parseFailures, currentWorld, players, deriveObs, notifierOn,
                calls, callbacks, deriveUpdates, pubCalls, enqCalls, callsBefore, srcVars, ingestEnv,
                apiVars>>

vars == <<hubVars, notifyVars, ingestVars>>

(***************************************************************************)
(* api.Hub                                                                 *)
(***************************************************************************)
NewHub ==
    /\ hubPc = "select"
    /\ clients = {}
    /\ broadcast = <<>>
    /\ bcastEv = Nil
    /\ bcastLeft = {}
    /\ stopCloses = 0
    /\ stopOnce = FALSE
    /\ subState = [s \in Subs |-> "none"]
    /\ subVia = [s \in Subs |-> "none"]
    /\ subEvents = [s \in Subs |-> <<>>]
    /\ eventsCloses = [s \in Subs |-> 0]
    /\ doneCloses = [s \in Subs |-> 0]
    /\ panicked = FALSE
    /\ published = 0
    /\ pubDropped = {}
    /\ pubLost = {}
    /\ offered = [s \in Subs |-> <<>>]
    /\ dropLog = {}
    /\ recv = [s \in Subs |-> <<>>]
    /\ unsubCalls = [s \in Subs |-> 0]
    /\ stopPc = [t \in Stoppers |-> "idle"]

\* h.stopped is closed by Run's deferred close when Run returns
stopped == hubPc = "stopped"

\* close(ch) on a channel closed n times: a second close panics
CloseAll(closes, S) == [s \in Subs |-> IF s \in S THEN closes[s] + 1 ELSE closes[s]]
ClosePanics(S) == \E s \in S : eventsCloses[s] > 0 \/ doneCloses[s] > 0

observerVars == <<published, pubDropped, pubLost, offered, dropLog, recv, unsubCalls,
                  stopPc>>

\* a mutant of Subscribe: the stopped case returns the subscriber without closing it
SubscribeNoClose(s) ==
    /\ ~panicked
    /\ UNCHANGED <<notifyVars, ingestVars>>
    /\ subState[s] = "none"
    /\ \/ /\ hubPc = "select"
          /\ clients' = clients \cup {s}
          /\ subVia' = [subVia EXCEPT ![s] = "register"]
       \/ /\ stopped
          /\ subVia' = [subVia EXCEPT ![s] = "stopped"]
          /\ UNCHANGED clients
    /\ subState' = [subState EXCEPT ![s] = "live"]
    /\ UNCHANGED <<hubPc, broadcast, bcastEv, bcastLeft, stopCloses, stopOnce,
                   subEvents, eventsCloses, doneCloses, panicked, observerVars>>

\* Subscribe: select { case h.register <- sub; case <-h.stopped }
\* The register case is a rendezvous with Run's "case sub := <-h.register".
Subscribe(s) ==
    /\ ~panicked
    /\ UNCHANGED <<notifyVars, ingestVars>>
    /\ subState[s] = "none"
    /\ \/ /\ hubPc = "select"
          /\ clients' = clients \cup {s}
          /\ subVia' = [subVia EXCEPT ![s] = "register"]
          /\ UNCHANGED <<eventsCloses, doneCloses>>
       \/ /\ stopped
          /\ doneCloses' = CloseAll(doneCloses, {s})
          /\ eventsCloses' = CloseAll(eventsCloses, {s})
          /\ subVia' = [subVia EXCEPT ![s] = "stopped"]
          /\ UNCHANGED clients
    /\ subState' = [subState EXCEPT ![s] = "live"]
    /\ UNCHANGED <<hubPc, broadcast, bcastEv, bcastLeft, stopCloses, stopOnce,
                   subEvents, panicked, observerVars>>

\* a mutant of Unsubscribe: Run closes the channels of the subscriber it
\* receives without looking it up in clients
UnsubscribeUnchecked(s) ==
    /\ ~panicked
    /\ UNCHANGED <<notifyVars, ingestVars>>
    /\ subState[s] = "live"
    /\ unsubCalls[s] < MaxUnsub
    /\ \/ /\ hubPc = "select"
          /\ clients' = clients \ {s}
          /\ doneCloses' = CloseAll(doneCloses, {s})
          /\ eventsCloses' = CloseAll(eventsCloses, {s})
          /\ panicked' = ClosePanics({s})
       \/ /\ stopped
          /\ UNCHANGED <<clients, doneCloses, eventsCloses, panicked>>
    /\ unsubCalls' = [unsubCalls EXCEPT ![s] = @ + 1]
    /\ UNCHANGED <<hubPc, broadcast, bcastEv, bcastLeft, stopCloses, stopOnce,
                   subState, subVia, subEvents, published, pubDropped, pubLost,
                   offered, dropLog, recv, stopPc>>

\* Unsubscribe(sub), sub # nil: select { case h.unregister <- sub; case <-h.stopped }
\* with Run's "case sub := <-h.unregister" on the other side of the rendezvous.
Unsubscribe(s) ==
    /\ ~panicked
    /\ UNCHANGED <<notifyVars, ingestVars>>
    /\ subState[s] = "live"
    /\ unsubCalls[s] < MaxUnsub
    /\ \/ /\ hubPc = "select"
          /\ IF s \in clients
             THEN /\ clients' = clients \ {s}
                  /\ doneCloses' = CloseAll(doneCloses, {s})
                  /\ eventsCloses' = CloseAll(eventsCloses, {s})
                  /\ panicked' = ClosePanics({s})
             ELSE UNCHANGED <<clients, doneCloses, eventsCloses, panicked>>
       \/ /\ stopped
          /\ UNCHANGED <<clients, doneCloses, eventsCloses, panicked>>
    /\ unsubCalls' = [unsubCalls EXCEPT ![s] = @ + 1]
    /\ UNCHANGED <<hubPc, broadcast, bcastEv, bcastLeft, stopCloses, stopOnce,
                   subState, subVia, subEvents, published, pubDropped, pubLost,
                   offered, dropLog, recv, stopPc>>

\* Unsubscribe(nil) and Publish(nil) return at once
NilCall ==
    /\ ~panicked
    /\ UNCHANGED vars

\* a mutant of PublishSelect: a plain blocking send, "h.broadcast <- e"
PublishBlocking(e) ==
    /\ Len(broadcast) < BroadcastCap
    /\ broadcast' = Append(broadcast, e)
    /\ UNCHANGED <<pubDropped, pubLost>>

\* a mutant of PublishSelect: the event overtakes the events waiting in h.broadcast
PublishOvertaking(e) ==
    \/ /\ Len(broadcast) < BroadcastCap
       /\ broadcast' = <<e>> \o broadcast
       /\ UNCHANGED <<pubDropped, pubLost>>
    \/ /\ stopped
       /\ pubLost' = pubLost \cup {e}
       /\ UNCHANGED <<broadcast, pubDropped>>
    \/ /\ Len(broadcast) >= BroadcastCap
       /\ ~stopped
       /\ pubDropped' = pubDropped \cup {e}
       /\ UNCHANGED <<broadcast, pubLost>>

\* the select of Publish: case h.broadcast <- e / case <-h.stopped / default
PublishSelect(e) ==
    \/ /\ Len(broadcast) < BroadcastCap
       /\ broadcast' = Append(broadcast, e)
       /\ UNCHANGED <<pubDropped, pubLost>>
    \/ /\ stopped
       /\ pubLost' = pubLost \cup {e}
       /\ UNCHANGED <<broadcast, pubDropped>>
    \/ /\ Len(broadcast) >= BroadcastCap
       /\ ~stopped
       /\ pubDropped' = pubDropped \cup {e}
       /\ UNCHANGED <<broadcast, pubLost>>

Publish ==
    /\ ~panicked
    /\ UNCHANGED <<notifyVars, ingestVars>>
    /\ published < MaxPublish
    /\ published' = published + 1
    /\ PublishSelect(published + 1)
    /\ UNCHANGED <<hubPc, clients, bcastEv, bcastLeft, stopCloses, stopOnce,
                   subState, subVia, subEvents, eventsCloses, doneCloses, panicked,
                   offered, dropLog, recv, unsubCalls, stopPc>>

\* Run: case e := <-h.broadcast, entering "for sub := range clients"
RunBroadcast ==
    /\ ~panicked
    /\ UNCHANGED <<notifyVars, ingestVars>>
    /\ hubPc = "select"
    /\ broadcast # <<>>
    /\ broadcast' = Tail(broadcast)
    /\ bcastEv' = Head(broadcast)
    /\ bcastLeft' = clients
    /\ offered' = [s \in Subs |-> IF s \in clients THEN Append(offered[s], Head(broadcast))
                                  ELSE offered[s]]
    /\ hubPc' = IF clients = {} THEN "select" ELSE "bcast"
    /\ UNCHANGED <<clients, stopCloses, stopOnce, subState, subVia, subEvents,
                   eventsCloses, doneCloses, panicked, published, pubDropped, pubLost,
                   dropLog, recv, unsubCalls, stopPc>>

\* a mutant of SendOrDrop: a blocking send, "sub.events <- e"
SendBlocking(s, e) ==
    /\ Len(subEvents[s]) < SubBuf
    /\ subEvents' = [subEvents EXCEPT ![s] = Append(@, e)]
    /\ bcastLeft' = bcastLeft \ {s}
    /\ UNCHANGED dropLog

\* a mutant of SendOrDrop: the range loop ends at the first full subscriber
SendOrBreak(s, e) ==
    IF Len(subEvents[s]) < SubBuf
    THEN /\ subEvents' = [subEvents EXCEPT ![s] = Append(@, e)]
         /\ bcastLeft' = bcastLeft \ {s}
         /\ UNCHANGED dropLog
    ELSE /\ dropLog' = dropLog \cup {[sub |-> s, ev |-> e, len |-> Len(subEvents[s])]}
         /\ bcastLeft' = {}
         /\ UNCHANGED subEvents

\* one iteration of the range loop: select { case sub.events <- e: ; default: drop }
SendOrDrop(s, e) ==
    IF Len(subEvents[s]) < SubBuf
    THEN /\ subEvents' = [subEvents EXCEPT ![s] = Append(@, e)]
         /\ bcastLeft' = bcastLeft \ {s}
         /\ UNCHANGED dropLog
    ELSE /\ dropLog' = dropLog \cup {[sub |-> s, ev |-> e, len |-> Len(subEvents[s])]}
         /\ bcastLeft' = bcastLeft \ {s}
         /\ UNCHANGED subEvents

RunDeliver(s) ==
    /\ ~panicked
    /\ UNCHANGED <<notifyVars, ingestVars>>
    /\ hubPc = "bcast"
    /\ s \in bcastLeft
    /\ SendOrDrop(s, bcastEv)
    /\ panicked' = (eventsCloses[s] > 0)
    /\ hubPc' = IF bcastLeft' = {} THEN "select" ELSE "bcast"
    /\ UNCHANGED <<clients, broadcast, bcastEv, stopCloses, stopOnce, subState, subVia,
                   eventsCloses, doneCloses, published, pubDropped, pubLost, offered,
                   recv, unsubCalls, stopPc>>

\* Run: case <-h.stop: close every client's channels, return; defer close(h.stopped)
RunStop ==
    /\ ~panicked
    /\ UNCHANGED <<notifyVars, ingestVars>>
    /\ hubPc = "select"
    /\ stopCloses > 0
    /\ doneCloses' = CloseAll(doneCloses, clients)
    /\ eventsCloses' = CloseAll(eventsCloses, clients)
    /\ panicked' = ClosePanics(clients)
    /\ hubPc' = "stopped"
    /\ UNCHANGED <<clients, broadcast, bcastEv, bcastLeft, stopCloses, stopOnce,
                   subState, subVia, subEvents, observerVars>>

\* a mutant of StopOnceDo: close(h.stop) without the sync.Once
StopCloseAlways ==
    /\ stopCloses' = stopCloses + 1
    /\ stopOnce' = TRUE
    /\ panicked' = (stopCloses > 0)

\* h.stopOnce.Do(func() { close(h.stop) })
StopOnceDo ==
    IF stopOnce
    THEN UNCHANGED <<stopCloses, stopOnce, panicked>>
    ELSE /\ stopCloses' = stopCloses + 1
         /\ stopOnce' = TRUE
         /\ panicked' = (stopCloses > 0)

StopCall(t) ==
    /\ ~panicked
    /\ UNCHANGED <<notifyVars, ingestVars>>
    /\ stopPc[t] = "idle"
    /\ StopOnceDo
    /\ stopPc' = [stopPc EXCEPT ![t] = "wait"]
    /\ UNCHANGED <<hubPc, clients, broadcast, bcastEv, bcastLeft, subState, subVia,
                   subEvents, eventsCloses, doneCloses, published, pubDropped, pubLost,
                   offered, dropLog, recv, unsubCalls>>

\* a mutant of StopWait: Stop returns without waiting for Run
StopNoWait == TRUE

\* <-h.stopped
StopWait == stopped

StopReturn(t) ==
    /\ ~panicked
    /\ UNCHANGED <<notifyVars, ingestVars>>
    /\ stopPc[t] = "wait"
    /\ StopWait
    /\ stopPc' = [stopPc EXCEPT ![t] = "returned"]
    /\ UNCHANGED <<hubPc, clients, broadcast, bcastEv, bcastLeft, stopCloses, stopOnce,
                   subState, subVia, subEvents, eventsCloses, doneCloses, panicked,
                   published, pubDropped, pubLost, offered, dropLog, recv, unsubCalls>>

\* the subscriber's reader: e, ok := <-sub.Events() with an event in the buffer
Read(s) ==
    /\ ~panicked
    /\ UNCHANGED <<notifyVars, ingestVars>>
    /\ subEvents[s] # <<>>
    /\ recv' = [recv EXCEPT ![s] = Append(@, Head(subEvents[s]))]
    /\ subEvents' = [subEvents EXCEPT ![s] = Tail(@)]
    /\ UNCHANGED <<hubPc, clients, broadcast, bcastEv, bcastLeft, stopCloses, stopOnce,
                   subState, subVia, eventsCloses, doneCloses, panicked, published,
                   pubDropped, pubLost, offered, dropLog, unsubCalls, stopPc>>

(***************************************************************************)
(* notify.Notifier                                                         *)
(***************************************************************************)
\* a nil *string
NilStr == "<nil>"

\* the derived events callers pass to Enqueue: Type, Event.PlayerID, Event.PlayerName
DerivedEvents ==
    { [type |-> "player_joined", pid |-> NilStr, name |-> "Alice"],
      [type |-> "player_left", pid |-> NilStr, name |-> "Alice"],
      [type |-> "player_joined", pid |-> "usr_b", name |-> "Bob"],
      [type |-> "world_changed", pid |-> NilStr, name |-> NilStr] }

\* the FilterConfig values a notifier is built with
Filters ==
    { [NotifyOnJoin |-> TRUE, NotifyOnLeave |-> TRUE, NotifyOnWorldJoin |-> TRUE],
      [NotifyOnJoin |-> TRUE, NotifyOnLeave |-> FALSE, NotifyOnWorldJoin |-> FALSE] }

SendResults == {"ok", "retryable", "fatal"}

\* what the notifier is given: size by WithMaxQueueSize, nCalls the number of
\* Enqueue calls to come, results what the Sender may answer
NotifierEnv(size, nCalls, results, stoppers) ==
    /\ maxQueueSize = size
    /\ enqLimit = nCalls
    /\ senderResults = results
    /\ stopCallers = stoppers

NewNotifier(f) ==
    /\ nPc = "select"
    /\ finalFlush = FALSE
    /\ eventCh = <<>>
    /\ flushCh = FALSE
    /\ stopChClosed = FALSE
    /\ nStopOnce = FALSE
    /\ ctxDone = FALSE
    /\ queue = <<>>
    /\ timerHandle = FALSE
    /\ timers = {}
    /\ disabled = FALSE
    /\ disabledReason = ""
    /\ disabledAt = 0
    /\ backoffAttempt = 0
    /\ backoffUntil = 0
    /\ sendLeft = <<>>
    /\ now = 0
    /\ enqPc = "idle"
    /\ enqEv = Nil
    /\ enqueued = 0
    /\ filter = f
    /\ batch = <<>>
    /\ sendStart = -1
    /\ notBefore = 0
    /\ fatalAt = -1
    /\ sentAfterFatal = FALSE
    /\ inFlight = 0
    /\ failed = {}
    /\ skipped = FALSE
    /\ overflowed = FALSE
    /\ replaced = FALSE
    /\ nStopPc = [t \in Stoppers |-> "idle"]
    /\ nPanicked = FALSE

shouldNotify(ev) ==
    CASE ev.type = "player_joined" -> filter.NotifyOnJoin
      [] ev.type = "player_left" -> filter.NotifyOnLeave
      [] ev.type = "world_changed" -> filter.NotifyOnWorldJoin
      [] OTHER -> FALSE

eventKey(ev) ==
    CASE ev.type = "world_changed" -> "world"
      [] ev.type \in {"player_joined", "player_left"} ->
            IF ev.pid # NilStr /\ ev.pid # "" THEN "player:" \o ev.pid
            ELSE IF ev.name # NilStr THEN "player:" \o ev.name
            ELSE ""
      [] OTHER -> ""

\* the loop of coalesceQueueLocked over n.queue[i..], result being built
RECURSIVE coalesceFrom(_, _, _)
coalesceFrom(q, i, result) ==
    IF i > Len(q) THEN result
    ELSE LET ev == q[i]
             key == eventKey(ev)
             seen == {k \in 1..Len(result) : eventKey(result[k]) = key}
         IN  IF key = "" THEN coalesceFrom(q, i + 1, Append(result, ev))
             ELSE IF seen # {}
                  THEN coalesceFrom(q, i + 1,
                           [result EXCEPT ![CHOOSE k \in seen : TRUE] = ev])
                  ELSE coalesceFrom(q, i + 1, Append(result, ev))

\* a mutant of coalesceQueueLocked: the newer event goes to the end of the
\* queue and the older one of its key is removed
coalesceMoveToEnd(q) ==
    IF Len(q) <= 1 THEN q
    ELSE LET last == q[Len(q)]
         IN  SelectSeq(SubSeq(q, 1, Len(q) - 1),
                       LAMBDA e : eventKey(last) = "" \/ eventKey(e) # eventKey(last))
             \o <<last>>

coalesceQueueLocked(q) == IF Len(q) <= 1 THEN q ELSE coalesceFrom(q, 1, <<>>)

\* a mutant of enforceLimit: the newest events are dropped, n.queue[:maxQueueSize]
enforceLimitKeepOldest(q) ==
    IF Len(q) > maxQueueSize THEN SubSeq(q, 1, maxQueueSize) ELSE q

\* the queue size limit of handleEvent: n.queue = n.queue[dropped:]
enforceLimit(q) ==
    IF Len(q) > maxQueueSize THEN SubSeq(q, Len(q) - maxQueueSize + 1, Len(q)) ELSE q

\* payload.go
MaxEmbedsPerRequest == 10

SelectType(events, ty) == SelectSeq(events, LAMBDA e : e.type = ty)
Ids(events) == [i \in 1..Len(events) |-> events[i].id]

splitIntoPayloads(embeds) ==
    [k \in 1..((Len(embeds) + MaxEmbedsPerRequest - 1) \div MaxEmbedsPerRequest) |->
        SubSeq(embeds, (k - 1) * MaxEmbedsPerRequest + 1,
               IF k * MaxEmbedsPerRequest > Len(embeds) THEN Len(embeds)
               ELSE k * MaxEmbedsPerRequest)]

\* a mutant of BuildPayloads: one embed per event, in queue order
BuildPayloadsPerEvent(events) ==
    IF Len(events) = 0 THEN <<>>
    ELSE splitIntoPayloads(
             [i \in 1..Len(events) |->
                 [title |-> CASE events[i].type = "world_changed" -> "World Changed"
                              [] events[i].type = "player_joined" -> "Player Joined"
                              [] OTHER -> "Player Left",
                  events |-> <<events[i].id>>]])

\* one embed per world change, then one for all joins, then one for all leaves
BuildPayloads(events) ==
    LET worldChanges == SelectType(events, "world_changed")
        joins == SelectType(events, "player_joined")
        leaves == SelectType(events, "player_left")
        worldEmbeds == [i \in 1..Len(worldChanges) |->
                           [title |-> "World Changed", events |-> <<worldChanges[i].id>>]]
        joinEmbeds == IF Len(joins) > 0
                      THEN <<[title |-> "Player Joined", events |-> Ids(joins)]>> ELSE <<>>
        leaveEmbeds == IF Len(leaves) > 0
                       THEN <<[title |-> "Player Left", events |-> Ids(leaves)]>> ELSE <<>>
    IN  IF Len(events) = 0 THEN <<>>
        ELSE splitIntoPayloads(worldEmbeds \o joinEmbeds \o leaveEmbeds)

\* backoff.go: DefaultBackoffConfig, in seconds and percent
InitialDelay == 1
MaxDelay == 300
Multiplier == 2
JitterPercent == 20

RECURSIVE Pow(_, _)
Pow(b, n) == IF n <= 0 THEN 1 ELSE b * Pow(b, n - 1)

\* CalculateBackoff(attempt, DefaultBackoffConfig): the delays the jitter allows.
\* delay +- JitterPercent of delay, a real number of seconds in the code, is
\* every whole number of seconds from the bound below to the bound above.
CalculateBackoff(attempt) ==
    LET a == IF attempt < 0 THEN 0 ELSE attempt
        raw == InitialDelay * Pow(Multiplier, a)
        delay == IF raw > MaxDelay THEN MaxDelay ELSE raw
        lo == (delay * (100 - JitterPercent)) \div 100
        hi == (delay * (100 + JitterPercent) + 99) \div 100
    IN  lo..hi

\* n.afterFunc(d, n.triggerFlush) with DefaultAfterFunc: a timer due at now + d
afterFunc(d) == timers' = timers \cup {now + d}

\* a mutant of InBackoff: flush does not look at the backoff window
InBackoffNever == FALSE

\* flush: time.Now().Before(n.backoffUntil)
InBackoff == now < backoffUntil

\* where Run goes when the flush it called returns
AfterFlush(final) == IF final THEN "done" ELSE "select"

\* Enqueue up to the channel send: nil check, disabled check under mu, filter
EnqueueCheck ==
    /\ UNCHANGED <<hubVars, ingestVars, notifyEnv, stopObs>>
    /\ enqPc = "idle"
    /\ enqueued < enqLimit
    /\ \E d \in DerivedEvents :
          LET ev == [id |-> enqueued + 1, type |-> d.type, pid |-> d.pid, name |-> d.name]
          IN  IF disabled \/ ~shouldNotify(ev)
              THEN UNCHANGED <<enqPc, enqEv>>
              ELSE enqPc' = "checked" /\ enqEv' = ev
    /\ enqueued' = enqueued + 1
    /\ UNCHANGED <<nPc, finalFlush, eventCh, flushCh, stopChClosed, nStopOnce, ctxDone,
                   queue, timerHandle, timers, disabled, disabledReason, disabledAt,
                   backoffAttempt, backoffUntil, sendLeft, now, filter, sendObs, skipped, queueObs>>

\* Enqueue(nil) returns at once
EnqueueNil ==
    /\ enqPc = "idle"
    /\ UNCHANGED vars

\* a mutant of EnqueueSend: a plain channel send, n.eventCh <- event
EnqueueSendBlocking ==
    /\ UNCHANGED <<hubVars, ingestVars, notifyEnv, stopObs>>
    /\ enqPc = "checked"
    /\ Len(eventCh) < EventChCap
    /\ eventCh' = Append(eventCh, enqEv)
    /\ enqPc' = "idle"
    /\ enqEv' = Nil
    /\ UNCHANGED <<nPc, finalFlush, flushCh, stopChClosed, nStopOnce, ctxDone,
                   queue, timerHandle, timers, disabled, disabledReason, disabledAt,
                   backoffAttempt, backoffUntil, sendLeft, now, enqueued, filter, sendObs,
                   skipped, queueObs>>

\* Enqueue: select { case n.eventCh <- event: ; default: drop }
EnqueueSend ==
    /\ UNCHANGED <<hubVars, ingestVars, notifyEnv, stopObs>>
    /\ enqPc = "checked"
    /\ eventCh' = IF Len(eventCh) < EventChCap THEN Append(eventCh, enqEv) ELSE eventCh
    /\ enqPc' = "idle"
    /\ enqEv' = Nil
    /\ UNCHANGED <<nPc, finalFlush, flushCh, stopChClosed, nStopOnce, ctxDone,
                   queue, timerHandle, timers, disabled, disabledReason, disabledAt,
                   backoffAttempt, backoffUntil, sendLeft, now, enqueued, filter, sendObs,
                   skipped, queueObs>>

\* Run: case ev := <-n.eventCh: n.Notifier_handleEvent(ev)
Notifier_handleEvent ==
    /\ UNCHANGED <<hubVars, ingestVars, notifyEnv, stopObs>>
    /\ nPc = "select"
    /\ eventCh # <<>>
    /\ eventCh' = Tail(eventCh)
    /\ LET appended == Append(queue, Head(eventCh))
           coalesced == coalesceQueueLocked(appended)
       IN  /\ queue' = enforceLimit(coalesced)
           /\ replaced' = (replaced \/ Len(coalesced) < Len(appended))
           /\ overflowed' = (overflowed \/ Len(coalesced) > maxQueueSize)
    /\ IF ~timerHandle
       THEN timerHandle' = TRUE /\ afterFunc(BatchDelay)
       ELSE UNCHANGED <<timerHandle, timers>>
    /\ UNCHANGED <<nPc, finalFlush, flushCh, stopChClosed, nStopOnce, ctxDone,
                   disabled, disabledReason, disabledAt, backoffAttempt, backoffUntil,
                   sendLeft, now, enqPc, enqEv, enqueued, filter, sendObs, skipped>>

\* flush, from its entry to its return or to its first call of n.sender.Send
flush(final) ==
    IF Len(queue) = 0
    THEN /\ timerHandle' = FALSE
         /\ nPc' = AfterFlush(final)
         /\ UNCHANGED <<queue, timers, sendLeft, sendObs, skipped, finalFlush>>
    ELSE IF InBackoff
    THEN /\ IF ~timerHandle
            THEN timerHandle' = TRUE /\ afterFunc(backoffUntil - now)
            ELSE UNCHANGED <<timerHandle, timers>>
         /\ skipped' = TRUE
         /\ nPc' = AfterFlush(final)
         /\ UNCHANGED <<queue, sendLeft, sendObs, finalFlush>>
    ELSE LET payloads == BuildPayloads(queue)
         IN  /\ queue' = <<>>
             /\ timerHandle' = FALSE
             /\ UNCHANGED <<timers, skipped>>
             /\ IF payloads = <<>>
                THEN /\ nPc' = AfterFlush(final)
                     /\ UNCHANGED <<sendLeft, sendObs, finalFlush>>
                ELSE /\ nPc' = "send"
                     /\ finalFlush' = final
                     /\ sendLeft' = payloads
                     /\ batch' = queue
                     /\ sendStart' = now
                     /\ inFlight' = inFlight + 1
                     /\ sentAfterFatal' = (sentAfterFatal \/ fatalAt >= 0)
                     /\ failed' = failed \ Range(queue)
                     /\ UNCHANGED <<notBefore, fatalAt>>

flushFrame ==
    /\ UNCHANGED <<hubVars, ingestVars, notifyEnv, stopObs>>
    /\ UNCHANGED <<eventCh, stopChClosed, nStopOnce, ctxDone, disabled, disabledReason,
                   disabledAt, backoffAttempt, backoffUntil, now, enqPc, enqEv, enqueued,
                   filter, queueObs>>

\* Run: case <-n.flushCh: n.flush(ctx)
RunFlush ==
    /\ nPc = "select"
    /\ flushCh
    /\ flushCh' = FALSE
    /\ flush(FALSE)
    /\ flushFrame

\* Run: case <-n.stopCh: n.flush(ctx); return
RunStopCh ==
    /\ nPc = "select"
    /\ stopChClosed
    /\ flush(TRUE)
    /\ UNCHANGED flushCh
    /\ flushFrame

\* Run: case <-ctx.Done(): n.flush(context.Background()); return
RunCtxDone ==
    /\ nPc = "select"
    /\ ctxDone
    /\ flush(TRUE)
    /\ UNCHANGED flushCh
    /\ flushFrame

\* handleSendResult
handleSendResult(result, retryAfter) ==
    CASE result = "ok" ->
            /\ backoffAttempt' = 0
            /\ backoffUntil' = 0
            /\ UNCHANGED <<disabled, disabledReason, disabledAt>>
      [] result = "retryable" ->
            /\ backoffAttempt' = backoffAttempt + 1
            /\ \E delay \in (IF retryAfter = 0 THEN CalculateBackoff(backoffAttempt + 1)
                             ELSE {retryAfter}) :
                  backoffUntil' = now + delay
            /\ UNCHANGED <<disabled, disabledReason, disabledAt>>
      [] result = "fatal" ->
            /\ disabled' = TRUE
            /\ disabledReason' = "fatal error (invalid webhook or authentication failed)"
            /\ disabledAt' = now
            /\ UNCHANGED <<backoffAttempt, backoffUntil>>

\* n.sender.Send returns inside flush's loop over the payloads: handleSendResult,
\* then the next payload's Send, or the end of flush
SendReturn ==
    /\ UNCHANGED <<hubVars, ingestVars, notifyEnv, stopObs>>
    /\ nPc = "send"
    /\ \E result \in senderResults, retryAfter \in {0, RetryAfter} :
          /\ (retryAfter # 0 => result = "retryable")
          /\ handleSendResult(result, retryAfter)
          /\ failed' = IF result = "retryable" THEN failed \cup Range(batch) ELSE failed
          /\ notBefore' = IF result = "retryable" /\ retryAfter > 0
                             /\ now + retryAfter > notBefore
                          THEN now + retryAfter ELSE notBefore
          /\ fatalAt' = IF result = "fatal" /\ fatalAt < 0 THEN now ELSE fatalAt
          /\ IF result # "ok" \/ Len(sendLeft) = 1
             THEN /\ sendLeft' = <<>>
                  /\ batch' = <<>>
                  /\ nPc' = AfterFlush(finalFlush)
                  /\ finalFlush' = FALSE
                  /\ inFlight' = inFlight - 1
                  /\ UNCHANGED <<sendStart, sentAfterFatal>>
             ELSE /\ sendLeft' = Tail(sendLeft)
                  /\ sendStart' = now
                  /\ UNCHANGED <<batch, sentAfterFatal, inFlight, nPc, finalFlush>>
    /\ skipped' = FALSE
    /\ UNCHANGED <<eventCh, flushCh, stopChClosed, nStopOnce, ctxDone, queue, timerHandle,
                   timers, now, enqPc, enqEv, enqueued, filter, queueObs>>

\* a mutant of TimerFire: the timer is armed with n.flush, so the flush runs
\* on the timer's task (up to its call of sender.Send)
TimerFireFlushes ==
    /\ UNCHANGED <<hubVars, ingestVars, notifyEnv, stopObs>>
    /\ \E d \in timers :
          /\ d <= now
          /\ timers' = timers \ {d}
    /\ timerHandle' = FALSE
    /\ IF Len(queue) = 0 \/ InBackoff \/ BuildPayloads(queue) = <<>>
       THEN UNCHANGED <<queue, batch, sendStart, inFlight>>
       ELSE /\ queue' = <<>>
            /\ batch' = queue
            /\ sendStart' = now
            /\ inFlight' = inFlight + 1
    /\ UNCHANGED <<nPc, finalFlush, eventCh, flushCh, stopChClosed, nStopOnce, ctxDone,
                   disabled, disabledReason, disabledAt, backoffAttempt, backoffUntil,
                   sendLeft, now, enqPc, enqEv, enqueued, filter, notBefore, fatalAt,
                   sentAfterFatal, failed, skipped, queueObs>>

\* a timer armed by afterFunc is due: triggerFlush, a non-blocking send on flushCh
TimerFire ==
    /\ UNCHANGED <<hubVars, ingestVars, notifyEnv, stopObs>>
    /\ \E d \in timers :
          /\ d <= now
          /\ timers' = timers \ {d}
    /\ flushCh' = TRUE
    /\ UNCHANGED <<nPc, finalFlush, eventCh, stopChClosed, nStopOnce, ctxDone, queue,
                   timerHandle, disabled, disabledReason, disabledAt, backoffAttempt,
                   backoffUntil, sendLeft, now, enqPc, enqEv, enqueued, filter, sendObs,
                   skipped, queueObs>>

\* a mutant of NotifierStopOnce: close(n.stopCh) without the sync.Once
NotifierStopAlwaysClose ==
    /\ nStopOnce' = TRUE
    /\ stopChClosed' = TRUE
    /\ nPanicked' = (nPanicked \/ stopChClosed)

\* Stop: n.stopOnce.Do(func() { close(n.stopCh) })
NotifierStopOnce ==
    IF nStopOnce
    THEN UNCHANGED <<nStopOnce, stopChClosed, nPanicked>>
    ELSE /\ nStopOnce' = TRUE
         /\ stopChClosed' = TRUE
         /\ nPanicked' = (nPanicked \/ stopChClosed)

\* Stop, up to its select
NotifierStop(t) ==
    /\ UNCHANGED <<hubVars, ingestVars, notifyEnv>>
    /\ t \in stopCallers
    /\ nStopPc[t] = "idle"
    /\ NotifierStopOnce
    /\ nStopPc' = [nStopPc EXCEPT ![t] = "wait"]
    /\ UNCHANGED <<nPc, finalFlush, eventCh, flushCh, ctxDone, queue, timerHandle, timers,
                   disabled, disabledReason, disabledAt, backoffAttempt, backoffUntil,
                   sendLeft, now, enqPc, enqEv, enqueued, filter, sendObs, skipped, queueObs>>

\* Stop: select { case <-n.doneCh: return nil; case <-ctx.Done(): return ctx.Err() }
\* (Run closes doneCh when it returns; the caller's context may end at any time)
NotifierStopReturn(t) ==
    /\ UNCHANGED <<hubVars, ingestVars, notifyEnv>>
    /\ nStopPc[t] = "wait"
    /\ \/ nPc = "done" /\ nStopPc' = [nStopPc EXCEPT ![t] = "nil"]
       \/ nStopPc' = [nStopPc EXCEPT ![t] = "ctxErr"]
    /\ UNCHANGED <<nPc, finalFlush, eventCh, flushCh, stopChClosed, nStopOnce, ctxDone,
                   queue, timerHandle, timers, disabled, disabledReason, disabledAt,
                   backoffAttempt, backoffUntil, sendLeft, now, enqPc, enqEv, enqueued,
                   filter, sendObs, skipped, queueObs, nPanicked>>

\* the context given to Run is cancelled
CtxCancel ==
    /\ UNCHANGED <<hubVars, ingestVars, notifyEnv, stopObs>>
    /\ ~ctxDone
    /\ ctxDone' = TRUE
    /\ UNCHANGED <<nPc, finalFlush, eventCh, flushCh, stopChClosed, nStopOnce, queue,
                   timerHandle, timers, disabled, disabledReason, disabledAt,
                   backoffAttempt, backoffUntil, sendLeft, now, enqPc, enqEv, enqueued,
                   filter, sendObs, skipped, queueObs>>

\* a second passes
Tick ==
    /\ UNCHANGED <<hubVars, ingestVars, notifyEnv, stopObs>>
    /\ now < MaxTime
    /\ now' = now + 1
    /\ UNCHANGED <<nPc, finalFlush, eventCh, flushCh, stopChClosed, nStopOnce, ctxDone,
                   queue, timerHandle, timers, disabled, disabledReason, disabledAt,
                   backoffAttempt, backoffUntil, sendLeft, enqPc, enqEv, enqueued, filter,
                   sendObs, skipped, queueObs>>

(***************************************************************************)
(* store.Store, derive.State, ingest.Ingester and main's OnInsert callback *)
(***************************************************************************)
\* the events an EventSource delivers: RawLine, Type, PlayerName, PlayerID, Timestamp,
\* WorldID
\* (Timestamp 0: the zero time)
SourceEvents ==
    { [RawLine |-> "L1", Type |-> "player_join", PlayerName |-> "Alice", PlayerID |-> "",
       Timestamp |-> 1, WorldID |-> ""],
      [RawLine |-> "L2", Type |-> "player_left", PlayerName |-> "Alice", PlayerID |-> "",
       Timestamp |-> 2, WorldID |-> ""],
      [RawLine |-> "L3", Type |-> "world_join", PlayerName |-> "", PlayerID |-> "",
       Timestamp |-> 3, WorldID |-> "wrld_1"],
      [RawLine |-> "L4", Type |-> "", PlayerName |-> "", PlayerID |-> "", Timestamp |-> 4, WorldID |-> ""],
      [RawLine |-> "L5", Type |-> "player_join", PlayerName |-> "Bob", PlayerID |-> "usr_b",
       Timestamp |-> 0, WorldID |-> ""] }

\* the errors an EventSource delivers: a *ParseError with its Line, or another error
SourceErrors ==
    { [parse |-> TRUE, Line |-> "bad"], [parse |-> TRUE, Line |-> ""],
      [parse |-> FALSE, Line |-> ""] }

\* SHA256Hex: distinct lines have distinct digests, and a digest is never empty
SHA256Hex(s) == "sha256:" \o s

stringPtrIfNotEmpty(s) == IF s = "" THEN NilStr ELSE s

deref(s) == IF s = NilStr THEN "" ELSE s

\* ToStoreEventWithClock, with clk.Now() = t
ToStoreEventWithClock(e, t) ==
    [ID |-> 0,
     Ts |-> e.Timestamp,
     Type |-> e.Type,
     PlayerName |-> stringPtrIfNotEmpty(e.PlayerName),
     PlayerID |-> stringPtrIfNotEmpty(e.PlayerID),
     WorldID |-> stringPtrIfNotEmpty(e.WorldID),
     DedupeKey |-> SHA256Hex(e.RawLine),
     IngestedAt |-> t]

NoErr == "nil"

\* a mutant of validateEvent: ingested_at is not looked at
validateEventThreeFields(e) ==
    IF e.Type = "" THEN "invalid event: type is required"
    ELSE IF e.DedupeKey = "" THEN "invalid event: dedupe_key is required"
    ELSE IF e.Ts = 0 THEN "invalid event: ts is required"
    ELSE NoErr

validateEvent(e) ==
    IF e.Type = "" THEN "invalid event: type is required"
    ELSE IF e.DedupeKey = "" THEN "invalid event: dedupe_key is required"
    ELSE IF e.Ts = 0 THEN "invalid event: ts is required"
    ELSE IF e.IngestedAt = 0 THEN "invalid event: ingested_at is required"
    ELSE NoErr

\* the rowid SQLite gives a new row of an INTEGER PRIMARY KEY table
NextRowID(rws) == IF rws = <<>> THEN 1 ELSE rws[Len(rws)].ID + 1

HasKey(rws, k) == \E i \in 1..Len(rws) : rws[i].DedupeKey = k

\* a mutant of InsertEvent: a plain INSERT, without ON CONFLICT(dedupe_key) DO NOTHING
\* and without the UNIQUE constraint
InsertEventPlain(e, dbFail) ==
    IF validateEvent(e) # NoErr
    THEN [id |-> 0, inserted |-> FALSE, err |-> validateEvent(e), rows |-> rows]
    ELSE IF dbFail
    THEN [id |-> 0, inserted |-> FALSE, err |-> "insert event: engine error", rows |-> rows]
    ELSE [id |-> NextRowID(rows), inserted |-> TRUE, err |-> NoErr,
          rows |-> Append(rows, [e EXCEPT !.ID = NextRowID(rows)])]

\* a mutant of InsertEvent: a conflict is reported as an insert
InsertEventConflictInserted(e, dbFail) ==
    IF validateEvent(e) # NoErr
    THEN [id |-> 0, inserted |-> FALSE, err |-> validateEvent(e), rows |-> rows]
    ELSE IF dbFail
    THEN [id |-> 0, inserted |-> FALSE, err |-> "insert event: engine error", rows |-> rows]
    ELSE IF HasKey(rows, e.DedupeKey)
    THEN [id |-> NextRowID(rows) - 1, inserted |-> TRUE, err |-> NoErr, rows |-> rows]
    ELSE [id |-> NextRowID(rows), inserted |-> TRUE, err |-> NoErr,
          rows |-> Append(rows, [e EXCEPT !.ID = NextRowID(rows)])]

\* Store.InsertEvent: what it returns and the events table it leaves; dbFail:
\* the database engine fails the statement (I/O error, cancelled context)
InsertEvent(e, dbFail) ==
    IF validateEvent(e) # NoErr
    THEN [id |-> 0, inserted |-> FALSE, err |-> validateEvent(e), rows |-> rows]
    ELSE IF dbFail
    THEN [id |-> 0, inserted |-> FALSE, err |-> "insert event: engine error", rows |-> rows]
    ELSE IF HasKey(rows, e.DedupeKey)
    THEN [id |-> 0, inserted |-> FALSE, err |-> NoErr, rows |-> rows]
    ELSE [id |-> NextRowID(rows), inserted |-> TRUE, err |-> NoErr,
          rows |-> Append(rows, [e EXCEPT !.ID = NextRowID(rows)])]

\* Store.InsertParseFailure: the parse_failures table it leaves
InsertParseFailure(rawLine, dbFail) ==
    IF rawLine = "" \/ dbFail THEN parseFailures
    ELSE parseFailures \cup {SHA256Hex(rawLine)}

\* derive.State.playerKey
playerKey(e) == IF deref(e.PlayerID) # "" THEN deref(e.PlayerID) ELSE deref(e.PlayerName)

\* a nil pointer to a struct (*event.Event, *WorldInfo)
NilPtr == [nil |-> TRUE]

\* what an Update call returns and the state it leaves: derived is the Type of
\* the DerivedEvent (NilStr: Update returned nil), prev its PrevWorld
Unchanged ==
    [derived |-> NilStr, prev |-> NilPtr, currentWorld |-> currentWorld, players |-> players]

\* a mutant of handleWorldJoin: the players map is kept
handleWorldJoinKeepPlayers(e) ==
    [derived |-> "world_changed", prev |-> currentWorld,
     currentWorld |-> [WorldID |-> deref(e.WorldID), JoinedAt |-> e.Ts],
     players |-> players]

handleWorldJoin(e) ==
    [derived |-> "world_changed", prev |-> currentWorld,
     currentWorld |-> [WorldID |-> deref(e.WorldID), JoinedAt |-> e.Ts],
     players |-> {}]

\* a mutant of handlePlayerJoin: no check for a player already present
handlePlayerJoinNoDedup(e) ==
    IF playerKey(e) = ""
    THEN Unchanged
    ELSE [derived |-> "player_joined", prev |-> NilPtr, currentWorld |-> currentWorld,
          players |-> players \cup {playerKey(e)}]

handlePlayerJoin(e) ==
    IF playerKey(e) = "" \/ playerKey(e) \in players
    THEN Unchanged
    ELSE [derived |-> "player_joined", prev |-> NilPtr, currentWorld |-> currentWorld,
          players |-> players \cup {playerKey(e)}]

\* a mutant of handlePlayerLeft: no check that the player is present
handlePlayerLeftAlways(e) ==
    IF playerKey(e) = ""
    THEN Unchanged
    ELSE [derived |-> "player_left", prev |-> NilPtr, currentWorld |-> currentWorld,
          players |-> players \ {playerKey(e)}]

handlePlayerLeft(e) ==
    IF playerKey(e) = "" \/ playerKey(e) \notin players
    THEN Unchanged
    ELSE [derived |-> "player_left", prev |-> NilPtr, currentWorld |-> currentWorld,
          players |-> players \ {playerKey(e)}]

\* derive.State.Update
Update(e) ==
    IF e = NilPtr THEN Unchanged
    ELSE CASE e.Type = "world_join" -> handleWorldJoin(e)
           [] e.Type = "player_join" -> handlePlayerJoin(e)
           [] e.Type = "player_left" -> handlePlayerLeft(e)
           [] OTHER -> Unchanged

\* a call of Update on the derive.State, with what the observers record of it
CallUpdate(e) ==
    LET u == Update(e)
    IN  /\ currentWorld' = u.currentWorld
        /\ players' = u.players
        /\ upTick' = ~upTick
        /\ upEv' = e
        /\ upRet' = [derived |-> u.derived, prev |-> u.prev]
        /\ joinedSince' =
              IF e = NilPtr THEN joinedSince
              ELSE IF e.Type = "world_join" THEN {}
              ELSE IF e.Type = "player_join" /\ playerKey(e) # ""
                   THEN joinedSince \cup {playerKey(e)}
              ELSE joinedSince

\* main: the callback given to ingest.WithOnInsert
OnInsert(e) ==
    LET u == Update(e)
    IN  /\ deriveUpdates' = Append(deriveUpdates, e.ID)
        /\ CallUpdate(e)
        /\ enqCalls' = IF u.derived # NilStr /\ notifierOn THEN Append(enqCalls, e.ID)
                       ELSE enqCalls
        /\ pubCalls' = Append(pubCalls, e.ID)
        /\ callbacks' = Append(callbacks, e.ID)

\* Ingester.handleEvent after InsertEvent returned without error:
\* if inserted is true, invoke on_insert(event); otherwise drop silently
InvokeOnInsert(inserted, e) ==
    IF inserted THEN OnInsert(e)
    ELSE UNCHANGED <<deriveUpdates, currentWorld, players, deriveObs, enqCalls, pubCalls, callbacks>>

\* no Update call yet
NoCall == [none |-> TRUE]

\* derive.New, and the ingester main builds
NewIngester(on) ==
    /\ ingPc = "start"
    /\ eventsCh = "open"
    /\ errsCh = "open"
    /\ firstClosed = ""
    /\ ingCtxDone = FALSE
    /\ runErr = ""
    /\ restarted = FALSE
    /\ emitted = 0
    /\ rows = <<>>
    /\ parseFailures = {}
    /\ currentWorld = NilPtr
    /\ players = {}
    /\ upTick = FALSE
    /\ upEv = NoCall
    /\ upRet = NoCall
    /\ joinedSince = {}
    /\ notifierOn = on
    /\ calls = <<>>
    /\ callbacks = <<>>
    /\ deriveUpdates = <<>>
    /\ pubCalls = <<>>
    /\ enqCalls = <<>>
    /\ callsBefore = 0
    /\ evBuf = <<>>
    /\ erBuf = <<>>
    /\ drained = FALSE

\* what the ingester is given: cap the buffer size of the source's channels,
\* n the number of items the source delivers
IngesterEnv(cap, n) ==
    /\ srcCap = cap
    /\ emitLimit = n

ingestFrame ==
    UNCHANGED <<hubVars, notifyVars, restarted, notifierOn, callsBefore, ingestEnv, apiVars>>

\* Run: i.source.Start(ctx), its error and the nil-channel check
IngesterStart ==
    /\ ingPc = "start"
    /\ \E ok \in BOOLEAN :
          IF ok THEN ingPc' = "run" /\ UNCHANGED runErr
          ELSE ingPc' = "returned" /\ runErr' = "source start failed"
    /\ ingestFrame
    /\ UNCHANGED srcVars
    /\ UNCHANGED <<eventsCh, errsCh, firstClosed, ingCtxDone, emitted, rows, parseFailures,
                   currentWorld, players, deriveObs, calls, callbacks, deriveUpdates, pubCalls,
                   enqCalls>>

\* a mutant of handleEvent: no return on the error of InsertEvent
handleEventIgnoringErr(ev, dbFail) ==
    LET storeEvent == ToStoreEventWithClock(ev, emitted')
        r == InsertEvent(storeEvent, dbFail)
    IN  /\ rows' = r.rows
        /\ calls' = Append(calls, [key |-> storeEvent.DedupeKey,
                                   valid |-> validateEvent(storeEvent) = NoErr,
                                   dbFail |-> dbFail, id |-> r.id,
                                   inserted |-> r.inserted, err |-> r.err])
        /\ InvokeOnInsert(r.inserted \/ r.err # NoErr, [storeEvent EXCEPT !.ID = r.id])

\* Ingester.handleEvent(ctx, ev), the database engine failing the insert or not
handleEvent(ev, dbFail) ==
    LET storeEvent == ToStoreEventWithClock(ev, emitted')
        r == InsertEvent(storeEvent, dbFail)
    IN  /\ rows' = r.rows
        /\ calls' = Append(calls, [key |-> storeEvent.DedupeKey,
                                   valid |-> validateEvent(storeEvent) = NoErr,
                                   dbFail |-> dbFail, id |-> r.id,
                                   inserted |-> r.inserted, err |-> r.err])
        /\ IF r.err # NoErr
           THEN UNCHANGED <<deriveUpdates, currentWorld, players, deriveObs, enqCalls, pubCalls,
                            callbacks>>
           ELSE InvokeOnInsert(r.inserted, [storeEvent EXCEPT !.ID = r.id])

\* Run: case ev, ok := <-eventsCh with ok: i.handleEvent(ctx, ev); the event
\* is the oldest one in the channel's buffer or, with the buffer empty, one
\* the source hands over at this instant
Ingester_handleEvent ==
    /\ ingPc = "run"
    /\ eventsCh # "nil"
    /\ \/ /\ evBuf # <<>>
          /\ evBuf' = Tail(evBuf)
          /\ drained' = (drained \/ errsCh = "nil")
          /\ UNCHANGED emitted
          /\ \E dbFail \in BOOLEAN : handleEvent(Head(evBuf), dbFail)
       \/ /\ evBuf = <<>>
          /\ eventsCh = "open"
          /\ emitted < emitLimit
          /\ emitted' = emitted + 1
          /\ UNCHANGED <<evBuf, drained>>
          /\ \E ev \in SourceEvents, dbFail \in BOOLEAN : handleEvent(ev, dbFail)
    /\ ingestFrame
    /\ UNCHANGED <<ingPc, eventsCh, errsCh, firstClosed, ingCtxDone, runErr, parseFailures,
                   erBuf>>

\* Run: case err, ok := <-errsCh with ok: i.handleError(ctx, err)
Ingester_handleError ==
    /\ ingPc = "run"
    /\ errsCh # "nil"
    /\ \/ /\ erBuf # <<>>
          /\ erBuf' = Tail(erBuf)
          /\ drained' = (drained \/ eventsCh = "nil")
          /\ UNCHANGED emitted
          /\ \E dbFail \in BOOLEAN :
                parseFailures' = IF Head(erBuf).parse
                                 THEN InsertParseFailure(Head(erBuf).Line, dbFail)
                                 ELSE parseFailures
       \/ /\ erBuf = <<>>
          /\ errsCh = "open"
          /\ emitted < emitLimit
          /\ emitted' = emitted + 1
          /\ UNCHANGED <<erBuf, drained>>
          /\ \E er \in SourceErrors, dbFail \in BOOLEAN :
                parseFailures' = IF er.parse THEN InsertParseFailure(er.Line, dbFail)
                                 ELSE parseFailures
    /\ ingestFrame
    /\ UNCHANGED <<ingPc, eventsCh, errsCh, firstClosed, ingCtxDone, runErr, rows,
                   currentWorld, players, deriveObs, calls, callbacks, deriveUpdates, pubCalls,
                   enqCalls, evBuf>>

\* the source sends an item into the buffer of one of its channels
SourceSend ==
    /\ ingPc = "run"
    /\ emitted < emitLimit
    /\ emitted' = emitted + 1
    /\ \/ /\ eventsCh = "open"
          /\ Len(evBuf) < srcCap
          /\ \E ev \in SourceEvents : evBuf' = Append(evBuf, ev)
          /\ UNCHANGED erBuf
       \/ /\ errsCh = "open"
          /\ Len(erBuf) < srcCap
          /\ \E er \in SourceErrors : erBuf' = Append(erBuf, er)
          /\ UNCHANGED evBuf
    /\ ingestFrame
    /\ UNCHANGED <<ingPc, eventsCh, errsCh, firstClosed, ingCtxDone, runErr, rows,
                   parseFailures, currentWorld, players, deriveObs, calls, callbacks,
                   deriveUpdates, pubCalls, enqCalls, drained>>

\* the source closes one of its channels
SourceClose ==
    /\ ingPc = "run"
    /\ \/ eventsCh = "open" /\ eventsCh' = "closed" /\ UNCHANGED errsCh
       \/ errsCh = "open" /\ errsCh' = "closed" /\ UNCHANGED eventsCh
    /\ ingestFrame
    /\ UNCHANGED srcVars
    /\ UNCHANGED <<ingPc, firstClosed, ingCtxDone, runErr, emitted, rows, parseFailures,
                   currentWorld, players, deriveObs, calls, callbacks, deriveUpdates, pubCalls,
                   enqCalls>>

\* a mutant of IngesterChannelClosed: a closed channel reads as closed at
\* once, whatever its buffer still holds
IngesterChannelClosedAtOnce ==
    /\ ingPc = "run"
    /\ \/ /\ eventsCh = "closed"
          /\ eventsCh' = "nil"
          /\ firstClosed' = IF firstClosed = "" THEN "events" ELSE firstClosed
          /\ UNCHANGED errsCh
       \/ /\ errsCh = "closed"
          /\ errsCh' = "nil"
          /\ firstClosed' = IF firstClosed = "" THEN "errs" ELSE firstClosed
          /\ UNCHANGED eventsCh
    /\ ingestFrame
    /\ UNCHANGED srcVars
    /\ UNCHANGED <<ingPc, ingCtxDone, runErr, emitted, rows, parseFailures, currentWorld,
                   players, deriveObs, calls, callbacks, deriveUpdates, pubCalls, enqCalls>>

\* Run: a receive with !ok: the channel variable becomes nil
IngesterChannelClosed ==
    /\ ingPc = "run"
    /\ \/ /\ eventsCh = "closed"
          /\ evBuf = <<>>
          /\ eventsCh' = "nil"
          /\ firstClosed' = IF firstClosed = "" THEN "events" ELSE firstClosed
          /\ UNCHANGED errsCh
       \/ /\ errsCh = "closed"
          /\ erBuf = <<>>
          /\ errsCh' = "nil"
          /\ firstClosed' = IF firstClosed = "" THEN "errs" ELSE firstClosed
          /\ UNCHANGED eventsCh
    /\ ingestFrame
    /\ UNCHANGED srcVars
    /\ UNCHANGED <<ingPc, ingCtxDone, runErr, emitted, rows, parseFailures, currentWorld,
                   players, deriveObs, calls, callbacks, deriveUpdates, pubCalls, enqCalls>>

\* Run: case <-ctx.Done(): return ctx.Err()
IngesterCtxDone ==
    /\ ingPc = "run"
    /\ eventsCh # "nil" \/ errsCh # "nil"
    /\ ingCtxDone
    /\ ingPc' = "returned"
    /\ runErr' = "context canceled"
    /\ ingestFrame
    /\ UNCHANGED srcVars
    /\ UNCHANGED <<eventsCh, errsCh, firstClosed, ingCtxDone, emitted, rows, parseFailures,
                   currentWorld, players, deriveObs, calls, callbacks, deriveUpdates, pubCalls,
                   enqCalls>>

\* a mutant of IngesterExit: return nil when the loop ends
IngesterExitNil ==
    /\ ingPc = "run"
    /\ eventsCh = "nil" /\ errsCh = "nil"
    /\ ingPc' = "returned"
    /\ runErr' = NoErr
    /\ ingestFrame
    /\ UNCHANGED srcVars
    /\ UNCHANGED <<eventsCh, errsCh, firstClosed, ingCtxDone, emitted, rows, parseFailures,
                   currentWorld, players, deriveObs, calls, callbacks, deriveUpdates, pubCalls,
                   enqCalls>>

\* Run: both channel variables are nil, the loop ends: return ctx.Err()
IngesterExit ==
    /\ ingPc = "run"
    /\ eventsCh = "nil" /\ errsCh = "nil"
    /\ ingPc' = "returned"
    /\ runErr' = IF ingCtxDone THEN "context canceled" ELSE NoErr
    /\ ingestFrame
    /\ UNCHANGED srcVars
    /\ UNCHANGED <<eventsCh, errsCh, firstClosed, ingCtxDone, emitted, rows, parseFailures,
                   currentWorld, players, deriveObs, calls, callbacks, deriveUpdates, pubCalls,
                   enqCalls>>

\* the context given to Ingester.Run is cancelled
IngesterCtxCancel ==
    /\ ingPc # "returned"
    /\ ~ingCtxDone
    /\ ingCtxDone' = TRUE
    /\ ingestFrame
    /\ UNCHANGED srcVars
    /\ UNCHANGED <<ingPc, eventsCh, errsCh, firstClosed, runErr, emitted, rows,
                   parseFailures, currentWorld, players, deriveObs, calls, callbacks, deriveUpdates,
                   pubCalls, enqCalls>>

\* main runs again on the same database: derive.New(), a new source and ingester
Restart ==
    /\ ingPc = "returned"
    /\ ~restarted
    /\ restarted' = TRUE
    /\ callsBefore' = Len(calls)
    /\ ingPc' = "start"
    /\ eventsCh' = "open"
    /\ errsCh' = "open"
    /\ firstClosed' = ""
    /\ ingCtxDone' = FALSE
    /\ runErr' = ""
    /\ currentWorld' = NilPtr
    /\ players' = {}
    /\ joinedSince' = {}
    /\ UNCHANGED <<upTick, upEv, upRet>>
    /\ evBuf' = <<>>
    /\ erBuf' = <<>>
    /\ UNCHANGED <<hubVars, notifyVars, notifierOn, drained, ingestEnv, apiVars>>
    /\ UNCHANGED <<emitted, rows, parseFailures, calls, callbacks, deriveUpdates, pubCalls,
                   enqCalls>>

\* the events a caller may give to Update: ID, Ts, Type, PlayerName, PlayerID,
\* WorldID (pointers are NilStr when nil); the Type "avatar_change" is none of
\* event.TypeWorldJoin, TypePlayerJoin, TypePlayerLeft
DeriveEvents ==
    { [ID |-> 1, Ts |-> 1, Type |-> "world_join", PlayerName |-> NilStr, PlayerID |-> NilStr,
       WorldID |-> "wrld_1"],
      [ID |-> 2, Ts |-> 2, Type |-> "world_join", PlayerName |-> NilStr, PlayerID |-> NilStr,
       WorldID |-> NilStr],
      [ID |-> 3, Ts |-> 3, Type |-> "player_join", PlayerName |-> "Alice", PlayerID |-> NilStr,
       WorldID |-> NilStr],
      [ID |-> 4, Ts |-> 4, Type |-> "player_join", PlayerName |-> "Alice", PlayerID |-> "",
       WorldID |-> NilStr],
      [ID |-> 5, Ts |-> 5, Type |-> "player_join", PlayerName |-> "Bob", PlayerID |-> "usr_b",
       WorldID |-> NilStr],
      [ID |-> 6, Ts |-> 6, Type |-> "player_join", PlayerName |-> NilStr, PlayerID |-> NilStr,
       WorldID |-> NilStr],
      [ID |-> 7, Ts |-> 7, Type |-> "player_left", PlayerName |-> "Alice", PlayerID |-> NilStr,
       WorldID |-> NilStr],
      [ID |-> 8, Ts |-> 8, Type |-> "player_left", PlayerName |-> "Bobby", PlayerID |-> "usr_b",
       WorldID |-> NilStr],
      [ID |-> 9, Ts |-> 9, Type |-> "player_left", PlayerName |-> "", PlayerID |-> NilStr,
       WorldID |-> NilStr],
      [ID |-> 10, Ts |-> 10, Type |-> "avatar_change", PlayerName |-> "Alice",
       PlayerID |-> NilStr, WorldID |-> NilStr] }

\* a caller of derive.State.Update, with an event or with nil
DeriveUpdate ==
    /\ \E e \in DeriveEvents \cup {NilPtr} : CallUpdate(e)
    /\ UNCHANGED <<hubVars, notifyVars>>
    /\ UNCHANGED <<ingPc, eventsCh, errsCh, firstClosed, ingCtxDone, runErr, restarted,
                   emitted, rows, parseFailures, notifierOn, calls, callbacks,
                   deriveUpdates, pubCalls, enqCalls, callsBefore, srcVars, ingestEnv,
                   apiVars>>

(***************************************************************************)
(* store: TimeFormat, eventToRow, cursor.go                                *)
(***************************************************************************)
\* what the callers of the store and of the API leave alone
apiFrame ==
    UNCHANGED <<hubVars, notifyVars, ingPc, eventsCh, errsCh, firstClosed, ingCtxDone, runErr,
                restarted, emitted, rows, parseFailures, currentWorld, players, deriveObs,
                notifierOn, calls, callbacks, deriveUpdates, pubCalls, enqCalls, callsBefore,
                srcVars, ingestEnv>>

\* A string is the sequence of its characters.
Digit == <<"0", "1", "2", "3", "4", "5", "6", "7", "8", "9">>

IsDigit(c) == \E d \in 1..10 : Digit[d] = c

DigitVal(c) == (CHOOSE d \in 1..10 : Digit[d] = c) - 1

\* the byte of a character: Go and SQLite's BINARY collation compare strings
\* byte by byte
Byte(c) ==
    CASE c = "+" -> 43
      [] c = "," -> 44
      [] c = "-" -> 45
      [] c = "." -> 46
      [] IsDigit(c) -> 48 + DigitVal(c)
      [] c = ":" -> 58
      [] c = "T" -> 84
      [] c = "Z" -> 90
      [] c = "x" -> 120
      [] c = "|" -> 124

\* a < b for two strings: the bytes at the first place where they differ
\* decide, and a proper prefix is smaller
LexLess(a, b) ==
    LET n == IF Len(a) < Len(b) THEN Len(a) ELSE Len(b)
        diff == {i \in 1..n : a[i] # b[i]}
    IN  IF diff = {} THEN Len(a) < Len(b)
        ELSE LET i == CHOOSE k \in diff : \A j \in diff : k <= j
             IN  Byte(a[i]) < Byte(b[i])

\* the decimal digits of n >= 0
RECURSIVE Digits(_)
Digits(n) == IF n < 10 THEN <<Digit[n + 1]>> ELSE Digits(n \div 10) \o <<Digit[(n % 10) + 1]>>

\* the last w decimal digits of n >= 0, with leading zeros
RECURSIVE Pad(_, _)
Pad(n, w) == IF w = 0 THEN <<>> ELSE Pad(n \div 10, w - 1) \o <<Digit[(n % 10) + 1]>>

\* the number a string of digits denotes
RECURSIVE NumVal(_)
NumVal(s) == IF s = <<>> THEN 0 ELSE 10 * NumVal(SubSeq(s, 1, Len(s) - 1)) + DigitVal(s[Len(s)])

\* fmt's %d
Itoa(n) == IF n < 0 THEN <<"-">> \o Digits(0 - n) ELSE Digits(n)

\* a time.Time: the instant sec seconds and nsec nanoseconds after
\* 2024-01-01T00:00:00Z; the model's instants lie in January 2024
Instant(sec, nsec) == [sec |-> sec, nsec |-> nsec]

\* Time.Before
Before(a, b) == a.sec < b.sec \/ (a.sec = b.sec /\ a.nsec < b.nsec)

TimeFormat ==
    <<"2", "0", "0", "6", "-", "0", "1", "-", "0", "2", "T", "1", "5", ":", "0", "4", ":",
      "0", "5", ".", "0", "0", "0", "0", "0", "0", "0", "0", "0", "Z">>

\* the fraction of time.RFC3339Nano: trailing zeros are removed, and a zero
\* fraction is left out with its point
RECURSIVE TrimZeros(_)
TrimZeros(s) ==
    IF s = <<>> THEN <<>>
    ELSE IF s[Len(s)] = "0" THEN TrimZeros(SubSeq(s, 1, Len(s) - 1))
    ELSE <<".">> \o s

\* the date and the time of day of t.UTC() as TimeFormat writes them
Clock(t) ==
    <<"2", "0", "2", "4", "-", "0", "1", "-">> \o Pad((t.sec \div 86400) + 1, 2) \o <<"T">>
        \o Pad((t.sec % 86400) \div 3600, 2) \o <<":">> \o Pad((t.sec % 3600) \div 60, 2)
        \o <<":">> \o Pad(t.sec % 60, 2)

\* a mutant of FormatTime: the layout time.RFC3339Nano
FormatRFC3339Nano(t) == Clock(t) \o TrimZeros(Pad(t.nsec, 9)) \o <<"Z">>

\* t.UTC().Format(TimeFormat)
FormatTime(t) == Clock(t) \o <<".">> \o Pad(t.nsec, 9) \o <<"Z">>

\* the text follows the layout: a digit where the layout has one, the layout's
\* own character elsewhere, and nothing after it
LayoutOK(s) ==
    /\ Len(s) = Len(TimeFormat)
    /\ \A i \in 1..Len(TimeFormat) :
          IF IsDigit(TimeFormat[i]) THEN IsDigit(s[i]) ELSE s[i] = TimeFormat[i]

\* time.Parse(TimeFormat, s): [ok, t]
ParseTime(s) ==
    IF ~LayoutOK(s) THEN [ok |-> FALSE, t |-> Instant(0, 0)]
    ELSE LET year == NumVal(SubSeq(s, 1, 4))
             month == NumVal(SubSeq(s, 6, 7))
             day == NumVal(SubSeq(s, 9, 10))
             hour == NumVal(SubSeq(s, 12, 13))
             min == NumVal(SubSeq(s, 15, 16))
             sec == NumVal(SubSeq(s, 18, 19))
             nsec == NumVal(SubSeq(s, 21, 29))
         IN  IF year = 2024 /\ month = 1 /\ day \in 1..31 /\ hour < 24 /\ min < 60 /\ sec < 60
             THEN [ok |-> TRUE,
                   t |-> Instant((day - 1) * 86400 + hour * 3600 + min * 60 + sec, nsec)]
             ELSE [ok |-> FALSE, t |-> Instant(0, 0)]

\* strconv.ParseInt(s, 10, 64): [ok, n]; a sign, then at least one digit
ParseInt(s) ==
    LET signed == s # <<>> /\ Head(s) \in {"+", "-"}
        body == IF signed THEN Tail(s) ELSE s
    IN  IF body # <<>> /\ \A i \in 1..Len(body) : IsDigit(body[i])
        THEN [ok |-> TRUE, n |-> IF signed /\ Head(s) = "-" THEN 0 - NumVal(body) ELSE NumVal(body)]
        ELSE [ok |-> FALSE, n |-> 0]

\* strings.Cut(s, sep): [before, after, found]
Cut(s, sep) ==
    IF \E i \in 1..Len(s) : s[i] = sep
    THEN LET i == CHOOSE k \in 1..Len(s) : s[k] = sep /\ \A j \in 1..(k - 1) : s[j] # sep
         IN  [before |-> SubSeq(s, 1, i - 1), after |-> SubSeq(s, i + 1, Len(s)), found |-> TRUE]
    ELSE [before |-> s, after |-> <<>>, found |-> FALSE]

\* A base64 string is [text, pad, junk]: the bytes its characters stand for,
\* the number of "=" after them, and whether it holds a character of neither
\* alphabet.  No byte of the texts used here gives a character of index 62 or
\* 63, where alone the two alphabets differ, so the URL encoding and the
\* standard encoding of a text differ in the padding only.
Padding(text) == (3 - (Len(text) % 3)) % 3

\* base64.RawURLEncoding.EncodeToString
RawURLEncode(text) == [text |-> text, pad |-> 0, junk |-> FALSE]

\* base64.StdEncoding.EncodeToString
StdEncode(text) == [text |-> text, pad |-> Padding(text), junk |-> FALSE]

\* base64.RawURLEncoding.DecodeString: [ok, text]; "=" is no character of it
RawURLDecode(c) == [ok |-> ~c.junk /\ c.pad = 0, text |-> c.text]

\* base64.StdEncoding.DecodeString: [ok, text]; the padding is required
StdDecode(c) == [ok |-> ~c.junk /\ c.pad = Padding(c.text), text |-> c.text]

ErrInvalidCursor == "invalid cursor format"

\* fmt.Errorf("%w: " + msg, target): the message and the errors it wraps
Errorf(target, msg) == [err |-> target \o ": " \o msg, is |-> {target}]

\* what decodeCursor returns: [t, id, err, is]
CursorErr(msg) ==
    [t |-> Instant(0, 0), id |-> 0, err |-> Errorf(ErrInvalidCursor, msg).err,
     is |-> Errorf(ErrInvalidCursor, msg).is]

\* the text of a cursor
CursorText(t, id) == FormatTime(t) \o <<"|">> \o Itoa(id)

EncodeCursor(t, id) == RawURLEncode(CursorText(t, id))

encodeCursor(t, id) == EncodeCursor(t, id)

\* what decodeCursor does with the decoded bytes
parseCursor(b) ==
    LET cut == Cut(b, "|")
        ts == ParseTime(cut.before)
        id == ParseInt(cut.after)
    IN  IF ~cut.found THEN CursorErr("missing separator")
        ELSE IF ~ts.ok THEN CursorErr("invalid timestamp")
        ELSE IF ~id.ok THEN CursorErr("invalid id")
        ELSE [t |-> ts.t, id |-> id.n, err |-> NoErr, is |-> {}]

\* a mutant of decodeCursor: without the fallback to StdEncoding
decodeCursorRawOnly(cur) ==
    IF ~RawURLDecode(cur).ok THEN CursorErr("base64 decode failed")
    ELSE parseCursor(RawURLDecode(cur).text)

decodeCursor(cur) ==
    IF RawURLDecode(cur).ok THEN parseCursor(RawURLDecode(cur).text)
    ELSE IF StdDecode(cur).ok THEN parseCursor(StdDecode(cur).text)
    ELSE CursorErr("base64 decode failed")

\* the instants and the ids of the model
Seconds == {0, 9, 10, 59, 60, 3600}

Nanos == {0, 1, 500000000, 999999999}

Instants == {Instant(s, n) : s \in Seconds, n \in Nanos}

CursorIDs == {0 - 1, 0, 7, 42}

\* the strings a client may send as a cursor: an encoding of a timestamp text,
\* "|" and an id text, or of a text without "|"
TsTexts ==
    {FormatTime(t) : t \in {Instant(0, 0), Instant(9, 500000000), Instant(3600, 999999999)}}
        \cup {FormatRFC3339Nano(Instant(9, 500000000)), <<"x">>, <<>>}

IDTexts ==
    {Itoa(n) : n \in CursorIDs}
        \cup {<<"+", "7">>, <<"0", "7">>, <<"x">>, <<"7", "x">>, <<"7", "|", "7">>, <<>>}

CursorTexts == {ts \o <<"|">> \o id : ts \in TsTexts, id \in IDTexts} \cup TsTexts

CursorStrings ==
    {[text |-> x, pad |-> p, junk |-> j] : x \in CursorTexts, p \in {0, 1, 2}, j \in BOOLEAN}

\* a caller of decodeCursor
CursorDecode ==
    /\ curOut = NoCall
    /\ curOut' = decodeCursor(curIn)
    /\ UNCHANGED <<curIn, tmA, tmB, rowA, rowB, queryVars, streamVars, authVars, lateVars>>
    /\ apiFrame

\* a caller of EncodeCursor, who then hands the cursor back
CursorEncode ==
    /\ \E t \in Instants, id \in CursorIDs, std \in BOOLEAN :
          curIn' = IF std THEN StdEncode(CursorText(t, id)) ELSE EncodeCursor(t, id)
    /\ curOut' = NoCall
    /\ UNCHANGED <<tmA, tmB, rowA, rowB, queryVars, streamVars, authVars, lateVars>>
    /\ apiFrame

\* eventToRow for two events: the ts column of each
EventToRow ==
    /\ rowA = NoCall
    /\ rowA' = [Ts |-> FormatTime(tmA)]
    /\ rowB' = [Ts |-> FormatTime(tmB)]
    /\ UNCHANGED <<curIn, curOut, tmA, tmB, queryVars, streamVars, authVars, lateVars>>
    /\ apiFrame

(***************************************************************************)
(* store.Store.QueryEvents                                                 *)
(***************************************************************************)
\* the string ""
EmptyString == RawURLEncode(<<>>)

\* ORDER BY ts ASC, id ASC: the order of two rows
RowLess(a, b) == LexLess(a.Ts, b.Ts) \/ (a.Ts = b.Ts /\ a.ID < b.ID)

\* the rows of S in that order
RECURSIVE OrderBy(_)
OrderBy(S) ==
    IF S = {} THEN <<>>
    ELSE LET first == CHOOSE r \in S : \A o \in S \ {r} : RowLess(r, o)
         IN  <<first>> \o OrderBy(S \ {first})

\* eventRow.toEvent, for the columns kept here
toEvent(r) == [ID |-> r.ID, Ts |-> ParseTime(r.Ts).t, Type |-> r.Type]

\* a mutant of afterCursor: the cursor's own row is selected too
afterCursorInclusive(r, cursorTimeStr, cursorID) ==
    LexLess(cursorTimeStr, r.Ts) \/ (r.Ts = cursorTimeStr /\ r.ID >= cursorID)

\* (ts > ? OR (ts = ? AND id > ?))
afterCursor(r, cursorTimeStr, cursorID) ==
    LexLess(cursorTimeStr, r.Ts) \/ (r.Ts = cursorTimeStr /\ r.ID > cursorID)

\* QueryEvents on the events table: [Items, NextCursor, err, is]
QueryEvents(f) ==
    LET limit == IF f.Limit <= 0 THEN defaultLimit
                 ELSE IF f.Limit > maxLimit THEN maxLimit
                 ELSE f.Limit
        hasCursor == f.Cursor # NilPtr /\ f.Cursor # EmptyString
        cur == decodeCursor(f.Cursor)
        where(r) ==
            /\ f.Since # NilPtr => ~LexLess(r.Ts, FormatTime(f.Since))
            /\ f.Until # NilPtr => LexLess(r.Ts, FormatTime(f.Until))
            /\ (f.Type # NilStr /\ f.Type # "") => r.Type = f.Type
            /\ hasCursor => afterCursor(r, FormatTime(cur.t), cur.id)
        selected == OrderBy({r \in table : where(r)})
        fetched == SubSeq(selected, 1, IF Len(selected) > limit + 1 THEN limit + 1
                                       ELSE Len(selected))
        items == [i \in 1..Len(fetched) |-> toEvent(fetched[i])]
    IN  IF hasCursor /\ cur.err # NoErr
        THEN [Items |-> <<>>, NextCursor |-> NilPtr, err |-> "decode cursor: " \o cur.err,
              is |-> cur.is]
        ELSE IF Len(items) > limit
        THEN [Items |-> SubSeq(items, 1, limit),
              NextCursor |-> encodeCursor(items[limit].Ts, items[limit].ID),
              err |-> NoErr, is |-> {}]
        ELSE [Items |-> items, NextCursor |-> NilPtr, err |-> NoErr, is |-> {}]

\* the timestamps of the stored events: one second apart, with different digits
\* in the seconds
QueryTimes == {Instant(9, 999999999), Instant(10, 0)}

\* the tables InsertEvent can have written: ids 1..n, each row's ts column
\* written by eventToRow
Tables ==
    UNION {{{[ID |-> i, Ts |-> FormatTime(ts[i]), Type |-> ty[i]] : i \in 1..n} :
                ts \in [1..n -> QueryTimes], ty \in [1..n -> {"player_join", "world_join"}]} :
           n \in 0..MaxRows}

\* the cursors a caller gives: none, "", one it got, one that cannot be decoded
QueryCursors ==
    {NilPtr, EmptyString, EncodeCursor(Instant(9, 999999999), 1), RawURLEncode(<<"x">>)}

QueryFilters ==
    {[Since |-> b[1], Until |-> b[2], Type |-> ty, Limit |-> n, Cursor |-> c] :
        b \in {<<NilPtr, NilPtr>>, <<Instant(10, 0), NilPtr>>, <<NilPtr, Instant(10, 0)>>},
        ty \in {NilStr, "", "player_join"}, n \in 0..(maxLimit + 1), c \in QueryCursors}

\* a caller of QueryEvents: the first call with its filter, then a call with
\* each next_cursor it gets
QueryCall ==
    /\ IF qResult = NoCall THEN TRUE
       ELSE qResult.err = NoErr /\ qResult.NextCursor # NilPtr
    /\ LET result == QueryEvents([qFilter EXCEPT !.Cursor = qCursor])
       IN  /\ qResult' = result
           /\ qPages' = Append(qPages, result.Items)
           /\ qCursor' = IF result.err = NoErr /\ result.NextCursor # NilPtr
                         THEN result.NextCursor ELSE qCursor
    /\ UNCHANGED <<table, qFilter, cursorVars, streamVars, authVars, lateVars>>
    /\ apiFrame

(***************************************************************************)
(* api.Server.handleStream                                                 *)
(***************************************************************************)
\* writeSSEEvent: the frame of an event (id, event, data)
writeSSEEvent(e) == [id |-> EncodeCursor(e.Ts, e.ID), event |-> e.Type, data |-> e.ID]

\* the frames of the items of a page
RECURSIVE writeSSEEvents(_)
writeSSEEvents(items) ==
    IF items = <<>> THEN <<>> ELSE <<writeSSEEvent(Head(items))>> \o writeSSEEvents(Tail(items))

\* the Last-Event-ID header and the last_event_id parameter a client sends:
\* none, the cursor of an event older than every stored one, the cursor of
\* the first event stored, a string that cannot be decoded
LastEventIDs ==
    {EmptyString, EncodeCursor(Instant(9, 0), 1), EncodeCursor(Instant(9, 999999999), 1),
     RawURLEncode(<<"x">>)}

\* the tables of the stream specification: every event is a player_join
StreamTables == {t \in Tables : \A r \in t : r.Type = "player_join"}

\* handleStream up to the replay: the Flusher check, the headers, the
\* Last-Event-ID of the header or else of the query parameter
StreamRequest ==
    /\ sPc = "idle"
    /\ \E flusher \in BOOLEAN, header \in LastEventIDs, param \in {EmptyString, RawURLEncode(<<"x">>)} :
          LET lastEventID == IF header = EmptyString THEN param ELSE header
          IN  IF ~flusher
              THEN /\ sStatus' = 500
                   /\ sPc' = "returned"
                   /\ UNCHANGED <<sLastID, sCursor>>
              ELSE /\ sLastID' = lastEventID
                   /\ sCursor' = lastEventID
                   /\ sPc' = IF lastEventID # EmptyString THEN "replay" ELSE "subscribe"
                   /\ UNCHANGED sStatus
    /\ UNCHANGED <<sPage, sFrames, sBeats>>
    /\ UNCHANGED <<cursorVars, queryVars, authVars, lateVars>>
    /\ apiFrame

\* a mutant of sendMissedEventsPage: the page counter is not checked
sendMissedEventsUnbounded(result) ==
    IF result.err # NoErr
    THEN /\ sPc' = "subscribe"
         /\ UNCHANGED <<sCursor, sPage, sFrames, sStatus>>
    ELSE /\ sFrames' = sFrames \o writeSSEEvents(result.Items)
         /\ sStatus' = 200
         /\ IF result.NextCursor = NilPtr
            THEN /\ sPc' = "subscribe"
                 /\ UNCHANGED <<sCursor, sPage>>
            ELSE /\ sCursor' = result.NextCursor
                 /\ sPage' = sPage + 1
                 /\ sPc' = "replay"

\* a mutant of sendMissedEventsPage: an invalid cursor answers 400, as the
\* events endpoint does
sendMissedEventsStrict(result) ==
    IF result.err # NoErr
    THEN /\ sPc' = "returned"
         /\ sStatus' = 400
         /\ UNCHANGED <<sCursor, sPage, sFrames>>
    ELSE /\ sFrames' = sFrames \o writeSSEEvents(result.Items)
         /\ sStatus' = 200
         /\ IF result.NextCursor = NilPtr \/ sPage + 1 >= missedEventsMaxPages
            THEN /\ sPc' = "subscribe"
                 /\ UNCHANGED <<sCursor, sPage>>
            ELSE /\ sCursor' = result.NextCursor
                 /\ sPage' = sPage + 1
                 /\ sPc' = "replay"

\* a mutant of sendMissedEventsPage: the filter's cursor is not moved to the
\* next cursor
sendMissedEventsSamePage(result) ==
    IF result.err # NoErr
    THEN /\ sPc' = "subscribe"
         /\ UNCHANGED <<sCursor, sPage, sFrames, sStatus>>
    ELSE /\ sFrames' = sFrames \o writeSSEEvents(result.Items)
         /\ sStatus' = 200
         /\ IF result.NextCursor = NilPtr \/ sPage + 1 >= missedEventsMaxPages
            THEN /\ sPc' = "subscribe"
                 /\ UNCHANGED <<sCursor, sPage>>
            ELSE /\ UNCHANGED sCursor
                 /\ sPage' = sPage + 1
                 /\ sPc' = "replay"

\* one pass of the loop of sendMissedEvents, given the result of its query: an
\* error ends the replay (an invalid cursor returns nil, another error is
\* returned and ignored by handleStream); else the items are written and
\* flushed, and the loop goes on while there is a next cursor and page + 1
\* is below missedEventsMaxPages
sendMissedEventsPage(result) ==
    IF result.err # NoErr
    THEN /\ sPc' = "subscribe"
         /\ UNCHANGED <<sCursor, sPage, sFrames, sStatus>>
    ELSE /\ sFrames' = sFrames \o writeSSEEvents(result.Items)
         /\ sStatus' = 200
         /\ IF result.NextCursor = NilPtr \/ sPage + 1 >= missedEventsMaxPages
            THEN /\ sPc' = "subscribe"
                 /\ UNCHANGED <<sCursor, sPage>>
            ELSE /\ sCursor' = result.NextCursor
                 /\ sPage' = sPage + 1
                 /\ sPc' = "replay"

\* sendMissedEvents: the query of one page and what the loop does with it
StreamReplayPage ==
    /\ sPc = "replay"
    /\ sendMissedEventsPage(QueryEvents([Since |-> NilPtr, Until |-> NilPtr, Type |-> NilStr,
                                         Limit |-> missedEventsPageSize, Cursor |-> sCursor]))
    /\ UNCHANGED <<sLastID, sBeats>>
    /\ UNCHANGED <<cursorVars, queryVars, authVars, lateVars>>
    /\ apiFrame

\* sub := s.hub.Subscribe(): the handler is subscriber 1 of the hub
StreamSubscribe == sPc = "subscribe" /\ subState[1] = "none" /\ Subscribe(1)

\* fmt.Fprintf(w, ": connected\n\n"), and the handler is in its loop
StreamConnected ==
    /\ sPc = "subscribe"
    /\ subState[1] = "live"
    /\ sFrames' = Append(sFrames, [comment |-> "connected"])
    /\ sStatus' = 200
    /\ sPc' = "live"
    /\ UNCHANGED <<sLastID, sCursor, sPage, sBeats>>
    /\ UNCHANGED <<cursorVars, queryVars, authVars, lateVars>>
    /\ apiFrame

\* case e, ok := <-sub.Events() with ok: the event is written as a frame (the
\* frames of the loop are those of recv[1], in order)
StreamReceive == sPc = "live" /\ Read(1)

\* case <-ticker.C: a heartbeat comment
StreamHeartbeat ==
    /\ sPc = "live"
    /\ sBeats < MaxBeats
    /\ sBeats' = sBeats + 1
    /\ UNCHANGED <<sPc, sLastID, sCursor, sPage, sFrames, sStatus>>
    /\ UNCHANGED <<cursorVars, queryVars, authVars, lateVars>>
    /\ apiFrame

\* the loop returns: the client went away (ctx.Done), sub.Done() is closed, or
\* sub.Events() is closed and empty
StreamReturn ==
    /\ sPc = "live"
    /\ sPc' = "unsub"
    /\ UNCHANGED <<sLastID, sCursor, sPage, sFrames, sStatus, sBeats>>
    /\ UNCHANGED <<cursorVars, queryVars, authVars, lateVars>>
    /\ apiFrame

\* the ingester's on_insert callback publishes an event
StreamPublish == published < LiveEvents /\ Publish

\* the client goes away: r.Context() is done. (During the replay the query
\* fails with the context's error and the handler goes on to Subscribe, which
\* is where a cancellation right after the replay finds it.)
StreamCancel ==
    /\ sPc \in {"subscribe", "live"}
    /\ ~sCtx
    /\ sCtx' = TRUE
    /\ UNCHANGED <<cursorVars, queryVars, streamVars, authVars, tokenVars, adapterVars,
                   gapVars, serverVars>>
    /\ apiFrame

\* the select of the loop takes "case <-ctx.Done()", "case <-sub.Done()" or
\* "case e, ok := <-sub.Events()" with !ok, and returns
StreamLoopReturn ==
    /\ sPc = "live"
    /\ \/ sCtx
       \/ doneCloses[1] > 0
       \/ eventsCloses[1] > 0 /\ subEvents[1] = <<>>
    /\ sPc' = "unsub"
    /\ UNCHANGED <<sLastID, sCursor, sPage, sFrames, sStatus, sBeats>>
    /\ UNCHANGED <<cursorVars, queryVars, authVars, lateVars>>
    /\ apiFrame

\* a mutant of StreamUnsubscribe: the handler returns without Unsubscribe
StreamUnsubscribeForgotten ==
    /\ sPc = "unsub"
    /\ unsubCalls[1] = 0
    /\ unsubCalls' = [unsubCalls EXCEPT ![1] = 1]
    /\ UNCHANGED <<hubPc, clients, broadcast, bcastEv, bcastLeft, stopCloses, stopOnce,
                   subState, subVia, subEvents, eventsCloses, doneCloses, panicked,
                   published, pubDropped, pubLost, offered, dropLog, recv, stopPc>>
    /\ UNCHANGED <<notifyVars, ingestVars>>

\* defer s.hub.Unsubscribe(sub)
StreamUnsubscribe == sPc = "unsub" /\ unsubCalls[1] = 0 /\ Unsubscribe(1)

(***************************************************************************)
(* api.AuthFailureLimiter, api.basicAuthMiddleware                         *)
(***************************************************************************)
\* the client addresses and the requests that may be in the middleware at once
IPs == {"X"}

Reqs == {1, 2}

\* DefaultAuthFailureLimiterConfig(), the durations in seconds
DefaultAuthFailureLimiterConfig == [MaxFailures |-> 5, Window |-> 300, LockoutPeriod |-> 900]

\* the configurations of the limiter: a lockout shorter and longer than the window
AuthConfigs ==
    {[MaxFailures |-> m, Window |-> w, LockoutPeriod |-> LockoutSeconds] :
        m \in 1..MaxFailures, w \in {1, LockoutSeconds + 1}}

\* time.Since(t), in seconds
Since(t) == aNow - t

\* IsLocked(ip)
IsLocked(ip) ==
    /\ failures[ip] # NilPtr
    /\ failures[ip].lockedAt # 0
    /\ Since(failures[ip].lockedAt) < lockout

\* LockoutSecondsRemaining(ip) on the map fs
LockoutSecondsRemaining(fs, ip) ==
    IF fs[ip] = NilPtr THEN 0
    ELSE IF fs[ip].lockedAt = 0 THEN 0
    ELSE IF lockout - Since(fs[ip].lockedAt) <= 0 THEN 0
    ELSE (lockout - Since(fs[ip].lockedAt)) + 1

\* a mutant of RecordFailure: a record whose lockout has elapsed starts afresh
RecordFailureFresh(ip) ==
    LET f == failures[ip]
    IN  IF f = NilPtr
        THEN [ret |-> maxFails - 1,
              failures |-> [failures EXCEPT ![ip] =
                               [count |-> 1, firstAt |-> aNow, lockedAt |-> 0]]]
        ELSE IF aNow - f.firstAt > window \/ (f.lockedAt # 0 /\ Since(f.lockedAt) >= lockout)
        THEN [ret |-> maxFails - 1,
              failures |-> [failures EXCEPT ![ip] =
                               [count |-> 1, firstAt |-> aNow, lockedAt |-> 0]]]
        ELSE IF f.count + 1 >= maxFails
        THEN [ret |-> 0 - 1,
              failures |-> [failures EXCEPT ![ip] =
                               [f EXCEPT !.count = f.count + 1, !.lockedAt = aNow]]]
        ELSE [ret |-> maxFails - (f.count + 1),
              failures |-> [failures EXCEPT ![ip] = [f EXCEPT !.count = f.count + 1]]]

\* RecordFailure(ip): what it returns and the map it leaves; now is aNow
RecordFailure(ip) ==
    LET f == failures[ip]
    IN  IF f = NilPtr
        THEN [ret |-> maxFails - 1,
              failures |-> [failures EXCEPT ![ip] =
                               [count |-> 1, firstAt |-> aNow, lockedAt |-> 0]]]
        ELSE IF aNow - f.firstAt > window
        THEN [ret |-> maxFails - 1,
              failures |-> [failures EXCEPT ![ip] =
                               [count |-> 1, firstAt |-> aNow, lockedAt |-> 0]]]
        ELSE IF f.count + 1 >= maxFails
        THEN [ret |-> 0 - 1,
              failures |-> [failures EXCEPT ![ip] =
                               [f EXCEPT !.count = f.count + 1, !.lockedAt = aNow]]]
        ELSE [ret |-> maxFails - (f.count + 1),
              failures |-> [failures EXCEPT ![ip] = [f EXCEPT !.count = f.count + 1]]]

\* a mutant of RecordSuccess: the record is kept
RecordSuccessKeeps(ip) == failures

\* RecordSuccess(ip): the map it leaves
RecordSuccess(ip) == [failures EXCEPT ![ip] = NilPtr]

\* formatRetryAfter
formatRetryAfter(seconds) == IF seconds < 0 THEN Itoa(0) ELSE Itoa(seconds)

\* the last maxFails failed authentications of ip, when there are that many
LastFailures(ip) == SubSeq(aSince[ip], Len(aSince[ip]) - maxFails + 1, Len(aSince[ip]))

\* ip has made maxFails failed authentications within window of each other and
\* with no success among them, and lockout has not elapsed since the last of them
ThresholdReached(ip) ==
    /\ Len(aSince[ip]) >= maxFails
    /\ LastFailures(ip)[maxFails] - LastFailures(ip)[1] <= window
    /\ Since(LastFailures(ip)[maxFails]) < lockout

\* ip has made them, and lockout has elapsed since the last of them
LockoutElapsed(ip) ==
    /\ Len(aSince[ip]) >= maxFails
    /\ LastFailures(ip)[maxFails] - LastFailures(ip)[1] <= window
    /\ Since(LastFailures(ip)[maxFails]) >= lockout

\* how a request finds its client: before the threshold, locked out, or with
\* the lockout elapsed
Standing(ip) ==
    IF ThresholdReached(ip) THEN "reached"
    ELSE IF LockoutElapsed(ip) THEN "elapsed" ELSE "before"

\* a response of the middleware: the client, its credentials, the status, the
\* Retry-After header (NilStr: none), and the standing of the client when the
\* request came in
Response(ip, creds, status, retryAfter, standing) ==
    [ip |-> ip, creds |-> creds, status |-> status, retryAfter |-> retryAfter,
     standing |-> standing]

\* basicAuthMiddleware, from the start to the lockout check: a locked client
\* is answered 429 with Retry-After
AuthArrive(r) ==
    /\ reqPc[r] = "idle"
    /\ aCount < MaxRequests
    /\ aCount' = aCount + 1
    /\ \E ip \in IPs, creds \in {"ok", "wrong", "none"} :
          IF IsLocked(ip)
          THEN /\ aLast' = Response(ip, creds, 429,
                               formatRetryAfter(LockoutSecondsRemaining(failures, ip)),
                               Standing(ip))
               /\ UNCHANGED <<reqPc, reqIn>>
          ELSE /\ reqPc' = [reqPc EXCEPT ![r] = "checked"]
               /\ reqIn' = [reqIn EXCEPT ![r] = [ip |-> ip, creds |-> creds,
                                                 standing |-> Standing(ip)]]
               /\ UNCHANGED aLast
    /\ UNCHANGED <<failures, aSince, aTotal, aNow, authEnv>>
    /\ UNCHANGED <<cursorVars, queryVars, streamVars, lateVars>>
    /\ apiFrame

\* basicAuthMiddleware, from r.BasicAuth() on
AuthFinish(r) ==
    /\ reqPc[r] = "checked"
    /\ reqPc' = [reqPc EXCEPT ![r] = "idle"]
    /\ reqIn' = [reqIn EXCEPT ![r] = NilPtr]
    /\ LET ip == reqIn[r].ip
           creds == reqIn[r].creds
           reached == reqIn[r].standing
           rf == RecordFailure(ip)
       IN  IF creds = "none"
           THEN /\ failures' = rf.failures
                /\ aSince' = [aSince EXCEPT ![ip] = Append(@, aNow)]
                /\ aTotal' = [aTotal EXCEPT ![ip] = @ + 1]
                /\ aLast' = Response(ip, creds, 401, NilStr, reached)
           ELSE IF creds = "wrong"
           THEN /\ failures' = rf.failures
                /\ aSince' = [aSince EXCEPT ![ip] = Append(@, aNow)]
                /\ aTotal' = [aTotal EXCEPT ![ip] = @ + 1]
                /\ aLast' = IF rf.ret < 0
                            THEN Response(ip, creds, 429,
                                     formatRetryAfter(LockoutSecondsRemaining(rf.failures, ip)),
                                     reached)
                            ELSE Response(ip, creds, 401, NilStr, reached)
           ELSE /\ failures' = RecordSuccess(ip)
                /\ aSince' = [aSince EXCEPT ![ip] = <<>>]
                /\ UNCHANGED aTotal
                /\ aLast' = Response(ip, creds, 200, NilStr, reached)
    /\ UNCHANGED <<aCount, aNow, authEnv>>
    /\ UNCHANGED <<cursorVars, queryVars, streamVars, lateVars>>
    /\ apiFrame

\* a second passes
AuthTick ==
    /\ aNow < MaxAuthTime
    /\ aNow' = aNow + 1
    /\ UNCHANGED <<failures, aSince, aTotal, reqPc, reqIn, aLast, aCount, authEnv>>
    /\ UNCHANGED <<cursorVars, queryVars, streamVars, lateVars>>
    /\ apiFrame

\* NewAuthFailureLimiter(cfg)
NewAuthFailureLimiter(cfg) ==
    /\ failures = [ip \in IPs |-> NilPtr]
    /\ maxFails = cfg.MaxFailures
    /\ window = cfg.Window
    /\ lockout = cfg.LockoutPeriod

(***************************************************************************)
(* sseauth.GenerateToken, sseauth.ValidateToken                            *)
(***************************************************************************)
tokenFrame == UNCHANGED <<cursorVars, queryVars, streamVars, authVars, adapterVars, gapVars, serverVars, cancelVars>>

TokenPrefix == "sse1"

\* DefaultTTL, in seconds
DefaultTTL == 300

ScopeSSE == "sse"

ErrInvalidFormat == "invalid token format"

ErrInvalidSignature == "invalid token signature"

ErrTokenExpired == "token expired"

ErrInvalidScope == "invalid token scope"

ErrEmptySecret == "secret cannot be empty"

\* t.Unix() and t.Add(d) with d in whole seconds
Unix(t) == t.sec

Add(t, d) == Instant(t.sec + d, t.nsec)

\* Claims{}
NoClaims == [Exp |-> 0, Iat |-> 0, Scope |-> ""]

\* json.Marshal(claims): the numbers in decimal, the scope as it is
Marshal(claims) == <<Itoa(claims.Exp), Itoa(claims.Iat), claims.Scope>>

\* json.Unmarshal(payloadJSON, &claims): [ok, claims]
Unmarshal(payloadJSON) ==
    IF /\ Len(payloadJSON) = 3
       /\ ParseInt(payloadJSON[1]).ok
       /\ ParseInt(payloadJSON[2]).ok
    THEN [ok |-> TRUE, claims |-> [Exp |-> ParseInt(payloadJSON[1]).n,
                                   Iat |-> ParseInt(payloadJSON[2]).n,
                                   Scope |-> payloadJSON[3]]]
    ELSE [ok |-> FALSE, claims |-> NoClaims]

\* the key of hmac.New(sha256.New, secret): the secret padded with zero bytes
\* to the block of 64 bytes, which the secrets used here are shorter than; the
\* padding is what two keys can share, so a key is written without it
RECURSIVE hmacKey(_)
hmacKey(secret) ==
    IF secret # <<>> /\ secret[Len(secret)] = 0
    THEN hmacKey(SubSeq(secret, 1, Len(secret) - 1))
    ELSE secret

\* mac.Write(sigInput); mac.Sum(nil): a value that the key and the input decide
hmacSum(secret, sigInput) == [key |-> hmacKey(secret), input |-> sigInput]

\* GenerateToken(secret, scope, nowT): [token, err]; the token is the list of
\* its parts between the dots
GenerateToken(secret, scope, nowT) ==
    IF Len(secret) = 0
    THEN [token |-> <<>>, err |-> ErrEmptySecret]
    ELSE LET claims == [Exp |-> Unix(Add(nowT, DefaultTTL)), Iat |-> Unix(nowT), Scope |-> scope]
             payloadB64 == RawURLEncode(Marshal(claims))
             sigInput == <<TokenPrefix, payloadB64>>
         IN  [token |-> sigInput \o <<RawURLEncode(hmacSum(secret, sigInput))>>, err |-> NoErr]

\* a mutant of ValidateToken: the expiry is not checked
ValidateTokenForever(token, secret, expectedScope, nowT) ==
    IF Len(secret) = 0 THEN [claims |-> NoClaims, err |-> ErrEmptySecret]
    ELSE IF Len(token) # 3 THEN [claims |-> NoClaims, err |-> ErrInvalidFormat]
    ELSE IF token[1] # TokenPrefix THEN [claims |-> NoClaims, err |-> ErrInvalidFormat]
    ELSE IF ~RawURLDecode(token[3]).ok THEN [claims |-> NoClaims, err |-> ErrInvalidFormat]
    ELSE IF RawURLDecode(token[3]).text # hmacSum(secret, <<token[1], token[2]>>)
    THEN [claims |-> NoClaims, err |-> ErrInvalidSignature]
    ELSE IF ~RawURLDecode(token[2]).ok THEN [claims |-> NoClaims, err |-> ErrInvalidFormat]
    ELSE IF ~Unmarshal(RawURLDecode(token[2]).text).ok
    THEN [claims |-> NoClaims, err |-> ErrInvalidFormat]
    ELSE LET claims == Unmarshal(RawURLDecode(token[2]).text).claims
         IN  IF claims.Scope # expectedScope THEN [claims |-> NoClaims, err |-> ErrInvalidScope]
             ELSE [claims |-> claims, err |-> NoErr]

\* ValidateToken(token, secret, expectedScope, nowT): [claims, err]
ValidateToken(token, secret, expectedScope, nowT) ==
    IF Len(secret) = 0 THEN [claims |-> NoClaims, err |-> ErrEmptySecret]
    ELSE IF Len(token) # 3 THEN [claims |-> NoClaims, err |-> ErrInvalidFormat]
    ELSE IF token[1] # TokenPrefix THEN [claims |-> NoClaims, err |-> ErrInvalidFormat]
    ELSE IF ~RawURLDecode(token[3]).ok THEN [claims |-> NoClaims, err |-> ErrInvalidFormat]
    ELSE IF RawURLDecode(token[3]).text # hmacSum(secret, <<token[1], token[2]>>)
    THEN [claims |-> NoClaims, err |-> ErrInvalidSignature]
    ELSE IF ~RawURLDecode(token[2]).ok THEN [claims |-> NoClaims, err |-> ErrInvalidFormat]
    ELSE IF ~Unmarshal(RawURLDecode(token[2]).text).ok
    THEN [claims |-> NoClaims, err |-> ErrInvalidFormat]
    ELSE LET claims == Unmarshal(RawURLDecode(token[2]).text).claims
         IN  IF Unix(nowT) > claims.Exp THEN [claims |-> NoClaims, err |-> ErrTokenExpired]
             ELSE IF claims.Scope # expectedScope
             THEN [claims |-> NoClaims, err |-> ErrInvalidScope]
             ELSE [claims |-> claims, err |-> NoErr]

\* the secrets (byte strings), scopes and instants of the calls; a token is
\* validated from its generation to a minute after its expiry
Secrets == {<<>>, <<1>>, <<2>>, <<1, 0>>}

Scopes == {ScopeSSE, "other-scope"}

GenTimes == {Instant(s, n) : s \in {0, 10}, n \in {0, 500000000}}

ValTimes(t) ==
    {Instant(t.sec + d, n) : d \in {0, 240, DefaultTTL - 1, DefaultTTL, DefaultTTL + 1, 360},
                             n \in {0, 500000000, 999999999}}

\* a call of GenerateToken
TokenGenerate ==
    /\ tkGen = NoCall
    /\ \E secret \in Secrets, scope \in Scopes, nowT \in GenTimes :
          tkGen' = [secret |-> secret, scope |-> scope, nowT |-> nowT,
                    out |-> GenerateToken(secret, scope, nowT)]
    /\ UNCHANGED tkVal
    /\ tokenFrame
    /\ apiFrame

\* a call of ValidateToken on the generated token
TokenValidate ==
    /\ tkGen # NoCall
    /\ tkGen.out.err = NoErr
    /\ \E secret \in Secrets, expectedScope \in Scopes, nowT \in ValTimes(tkGen.nowT) :
          tkVal' = [secret |-> secret, expectedScope |-> expectedScope, nowT |-> nowT,
                    out |-> ValidateToken(tkGen.out.token, secret, expectedScope, nowT)]
    /\ UNCHANGED tkGen
    /\ tokenFrame
    /\ apiFrame

(***************************************************************************)
(* ingest.VRClogSource.Start: the forwarding task                          *)
(***************************************************************************)
adapterFrame == UNCHANGED <<cursorVars, queryVars, streamVars, authVars, tokenVars, gapVars, serverVars, cancelVars>>

\* the watcher sends its next event: case ev, ok := <-events with ok
AdapterRecvEvent ==
    /\ adPc = "select"
    /\ adEvents
    /\ ~upClosed
    /\ Len(recvEv) < MaxUpEvents
    /\ recvEv' = Append(recvEv, Len(recvEv) + 1)
    /\ adHand' = Len(recvEv) + 1
    /\ adPc' = "sendEv"
    /\ UNCHANGED <<adEvents, adErrs, upClosed, adCtxDone, srcEventCh, srcErrCh, srcClosed,
                   outEv, outEr, recvEr, droppedErrors, lostErrors>>
    /\ adapterFrame
    /\ apiFrame

\* the deferred calls of the task: close(errCh), close(eventCh)
AdapterReturn ==
    /\ adPc' = "exited"
    /\ srcClosed' = TRUE

\* case ev, ok := <-events with ok false: events = nil, and the loop ends when
\* errs is nil too
AdapterEventsClosed ==
    /\ adPc = "select"
    /\ adEvents
    /\ upClosed
    /\ adEvents' = FALSE
    /\ IF adErrs THEN UNCHANGED <<adPc, srcClosed>> ELSE AdapterReturn
    /\ UNCHANGED <<adErrs, adHand, upClosed, adCtxDone, srcEventCh, srcErrCh,
                   outEv, outEr, recvEv, recvEr, droppedErrors, lostErrors>>
    /\ adapterFrame
    /\ apiFrame

\* case err, ok := <-errs with ok false
AdapterErrsClosed ==
    /\ adPc = "select"
    /\ adErrs
    /\ upClosed
    /\ adErrs' = FALSE
    /\ IF adEvents THEN UNCHANGED <<adPc, srcClosed>> ELSE AdapterReturn
    /\ UNCHANGED <<adEvents, adHand, upClosed, adCtxDone, srcEventCh, srcErrCh,
                   outEv, outEr, recvEv, recvEr, droppedErrors, lostErrors>>
    /\ adapterFrame
    /\ apiFrame

\* a mutant of AdapterSendEvent: the event is dropped when the channel is full
AdapterSendEventOrDrop ==
    /\ adPc = "sendEv"
    /\ srcEventCh' = IF Len(srcEventCh) < eventBufferSize
                     THEN Append(srcEventCh, adHand) ELSE srcEventCh
    /\ adPc' = "select"
    /\ adHand' = Nil
    /\ UNCHANGED <<adEvents, adErrs, upClosed, adCtxDone, srcErrCh, srcClosed,
                   outEv, outEr, recvEv, recvEr, droppedErrors, lostErrors>>
    /\ adapterFrame
    /\ apiFrame

\* case eventCh <- convertEvent(ev): there is space in the channel
AdapterSendEvent ==
    /\ adPc = "sendEv"
    /\ Len(srcEventCh) < eventBufferSize
    /\ srcEventCh' = Append(srcEventCh, adHand)
    /\ adPc' = "select"
    /\ adHand' = Nil
    /\ UNCHANGED <<adEvents, adErrs, upClosed, adCtxDone, srcErrCh, srcClosed,
                   outEv, outEr, recvEv, recvEr, droppedErrors, lostErrors>>
    /\ adapterFrame
    /\ apiFrame

\* case <-ctx.Done() of either select: return
AdapterCtxDone ==
    /\ adPc \in {"select", "sendEv"}
    /\ adCtxDone
    /\ AdapterReturn
    /\ adHand' = Nil
    /\ UNCHANGED <<adEvents, adErrs, upClosed, adCtxDone, srcEventCh, srcErrCh,
                   outEv, outEr, recvEv, recvEr, droppedErrors, lostErrors>>
    /\ adapterFrame
    /\ apiFrame

\* case err, ok := <-errs with ok, and the select on errCh that follows: the
\* send when there is space, the return when the context is done, the default
\* case when neither is ready
AdapterRecvError ==
    /\ adPc = "select"
    /\ adErrs
    /\ ~upClosed
    /\ Len(recvEr) < MaxUpErrors
    /\ recvEr' = Append(recvEr, Len(recvEr) + 1)
    /\ \/ /\ Len(srcErrCh) < errorBufferSize
          /\ srcErrCh' = Append(srcErrCh, Len(recvEr) + 1)
          /\ UNCHANGED <<adPc, srcClosed, droppedErrors, lostErrors>>
       \/ /\ adCtxDone
          /\ AdapterReturn
          /\ lostErrors' = lostErrors + 1
          /\ UNCHANGED <<srcErrCh, droppedErrors>>
       \/ /\ Len(srcErrCh) >= errorBufferSize
          /\ ~adCtxDone
          /\ droppedErrors' = droppedErrors + 1
          /\ UNCHANGED <<adPc, srcClosed, srcErrCh, lostErrors>>
    /\ UNCHANGED <<adEvents, adErrs, adHand, upClosed, adCtxDone, srcEventCh,
                   outEv, outEr, recvEv>>
    /\ adapterFrame
    /\ apiFrame

\* the watcher closes its channels
UpstreamClose ==
    /\ ~upClosed
    /\ upClosed' = TRUE
    /\ UNCHANGED <<adPc, adEvents, adErrs, adHand, adCtxDone, srcEventCh, srcErrCh, srcClosed,
                   outEv, outEr, recvEv, recvEr, droppedErrors, lostErrors>>
    /\ adapterFrame
    /\ apiFrame

\* the context of Start is cancelled
AdapterCancel ==
    /\ ~adCtxDone
    /\ adCtxDone' = TRUE
    /\ UNCHANGED <<adPc, adEvents, adErrs, adHand, upClosed, srcEventCh, srcErrCh, srcClosed,
                   outEv, outEr, recvEv, recvEr, droppedErrors, lostErrors>>
    /\ adapterFrame
    /\ apiFrame

\* the reader of the output channels takes an event
ConsumeEvent ==
    /\ srcEventCh # <<>>
    /\ outEv' = Append(outEv, Head(srcEventCh))
    /\ srcEventCh' = Tail(srcEventCh)
    /\ UNCHANGED <<adPc, adEvents, adErrs, adHand, upClosed, adCtxDone, srcErrCh, srcClosed,
                   outEr, recvEv, recvEr, droppedErrors, lostErrors>>
    /\ adapterFrame
    /\ apiFrame

\* the reader of the output channels takes an error
ConsumeError ==
    /\ srcErrCh # <<>>
    /\ outEr' = Append(outEr, Head(srcErrCh))
    /\ srcErrCh' = Tail(srcErrCh)
    /\ UNCHANGED <<adPc, adEvents, adErrs, adHand, upClosed, adCtxDone, srcEventCh, srcClosed,
                   outEv, recvEv, recvEr, droppedErrors, lostErrors>>
    /\ adapterFrame
    /\ apiFrame

(***************************************************************************)
(* store.Store.InsertEvent called with any event                           *)
(***************************************************************************)
\* errors.Is(err, ErrInvalidEvent): err was made with "%w: ..." around it
IsInvalidEvent(err) ==
    err \in {"invalid event: type is required", "invalid event: dedupe_key is required",
             "invalid event: ts is required", "invalid event: ingested_at is required"}

\* the events of the callers of InsertEvent: each required field given or not
\* (Ts, IngestedAt 0: the zero time)
InsertEvents ==
    {[ID |-> 0, Ts |-> ts, Type |-> ty, PlayerName |-> NilStr, PlayerID |-> NilStr,
      WorldID |-> NilStr, DedupeKey |-> k, IngestedAt |-> at] :
        ts \in {0, 1, 2}, ty \in {"", "player_join"}, k \in {"", "key-1", "key-2"},
        at \in {0, 3}}

\* a call of InsertEvent; calls holds the latest call
StoreInsert ==
    /\ \E e \in InsertEvents, dbFail \in BOOLEAN :
          LET r == InsertEvent(e, dbFail)
          IN  /\ rows' = r.rows
              /\ calls' = <<[key |-> e.DedupeKey, valid |-> validateEvent(e) = NoErr,
                             dbFail |-> dbFail, id |-> r.id, inserted |-> r.inserted,
                             err |-> r.err, ev |-> e]>>
    /\ ingestFrame
    /\ UNCHANGED srcVars
    /\ UNCHANGED <<ingPc, eventsCh, errsCh, firstClosed, ingCtxDone, runErr, emitted,
                   parseFailures, currentWorld, players, deriveObs, callbacks, deriveUpdates,
                   pubCalls, enqCalls>>

(***************************************************************************)
(* api.Server: WithBasicAuth, registerRoutes, wrapAuth, wrapSSEAuth, and   *)
(* the two auth middlewares in front of the handlers                       *)
(***************************************************************************)
\* WithBasicAuth(username, password): auth is enabled only when both are given
WithBasicAuth(username, password) == username # "" /\ password # ""

\* the servers NewServer builds as main does (every use case and the hub are
\* given): with or without basic auth, with or without an SSE secret, with or
\* without an auth-failure limiter
Servers ==
    {[authEnabled |-> WithBasicAuth(u, p), sseSecret |-> secret, afl |-> l] :
        u \in {"", "admin"}, p \in {"", "secret"}, secret \in {<<>>, <<1>>}, l \in BOOLEAN}

\* WithAuthFailureLimiter: the limiter the server hands to both middlewares
\* (FALSE: nil)
serverLimiter(s) == s.afl

\* wrapAuth, wrapSSEAuth: the middleware in front of a handler ("open": none)
wrapAuth(s) == IF ~s.authEnabled THEN "open" ELSE "basic"

wrapSSEAuth(s) == IF ~s.authEnabled THEN "open" ELSE "sse"

\* registerRoutes: the API paths registered and what guards each
registerRoutes(s) ==
    {[path |-> "health", guard |-> "open"],
     [path |-> "events", guard |-> wrapAuth(s)],
     [path |-> "now", guard |-> wrapAuth(s)],
     [path |-> "stream", guard |-> wrapSSEAuth(s)],
     [path |-> "config", guard |-> wrapAuth(s)]}
    \cup (IF Len(s.sseSecret) > 0
          THEN {[path |-> "auth/token", guard |-> wrapAuth(s)]} ELSE {})

Paths == {"health", "events", "now", "stream", "auth/token", "config"}

\* time.Now() of a request: the clock of the limiter, DefaultTTL seconds after
\* the oldest token was issued
RequestTime == Instant(DefaultTTL + aNow, 0)

\* the token query parameter of a request: none, a token issued by this server
\* for the stream (just now, or DefaultTTL seconds before the clock started),
\* a token for another scope, a token signed with another secret, and text
\* that is no token
RequestTokens ==
    {[kind |-> "none", text |-> <<>>],
     [kind |-> "fresh", text |-> GenerateToken(srv.sseSecret, ScopeSSE, Instant(DefaultTTL, 0)).token],
     [kind |-> "old", text |-> GenerateToken(srv.sseSecret, ScopeSSE, Instant(0, 0)).token],
     [kind |-> "scope", text |-> GenerateToken(srv.sseSecret, "other-scope", Instant(DefaultTTL, 0)).token],
     [kind |-> "forged", text |-> GenerateToken(<<2>>, ScopeSSE, Instant(DefaultTTL, 0)).token],
     [kind |-> "junk", text |-> <<"x">>]}

\* what a request was answered: 200 stands for the call of the handler
Answer(req, status, locked) ==
    [path |-> req.path, creds |-> req.creds, token |-> req.token.kind, status |-> status,
     admitted |-> (status = 200), locked |-> locked, at |-> RequestTime]

\* the requests to a path: with correct, wrong or no basic credentials, and
\* with each of the tokens
Requests(ip, path) ==
    {[ip |-> ip, path |-> path, creds |-> creds, token |-> token] :
        creds \in {"ok", "wrong", "none"}, token \in RequestTokens}

\* a request comes in: no route (404), a route without middleware (the
\* handler is called), or a middleware up to its lockout check (429 for a
\* locked client); the middleware has not read the credentials yet
RouteArrive(r) ==
    /\ reqPc[r] = "idle"
    /\ aCount < MaxRouted
    /\ aCount' = aCount + 1
    /\ \E ip \in IPs, path \in Paths :
          LET routes == {rt \in registerRoutes(srv) : rt.path = path}
          IN  IF routes = {}
              THEN /\ \E req \in Requests(ip, path) : aLast' = Answer(req, 404, FALSE)
                   /\ UNCHANGED <<reqPc, reqIn>>
              ELSE LET guard == (CHOOSE rt \in routes : TRUE).guard
                   IN  IF guard = "open"
                       THEN /\ \E req \in Requests(ip, path) : aLast' = Answer(req, 200, FALSE)
                            /\ UNCHANGED <<reqPc, reqIn>>
                       ELSE IF serverLimiter(srv) /\ IsLocked(ip)
                       THEN /\ \E req \in Requests(ip, path) : aLast' = Answer(req, 429, TRUE)
                            /\ UNCHANGED <<reqPc, reqIn>>
                       ELSE /\ reqPc' = [reqPc EXCEPT ![r] = "checked"]
                            /\ reqIn' = [reqIn EXCEPT ![r] =
                                            [ip |-> ip, path |-> path, guard |-> guard]]
                            /\ UNCHANGED aLast
    /\ UNCHANGED <<failures, aSince, aTotal, aNow, authEnv>>
    /\ UNCHANGED <<cursorVars, queryVars, streamVars, lateVars>>
    /\ apiFrame

\* a mutant of sseTokenAccepts: the token is validated whatever its expiry
sseTokenAcceptsExpired(token) ==
    /\ token # <<>>
    /\ Len(srv.sseSecret) > 0
    /\ ValidateTokenForever(token, srv.sseSecret, ScopeSSE, RequestTime).err = NoErr

\* sseTokenMiddleware: token != "" && len(sseSecret) > 0, and ValidateToken
\* returns no error
sseTokenAccepts(token) ==
    /\ token # <<>>
    /\ Len(srv.sseSecret) > 0
    /\ ValidateToken(token, srv.sseSecret, ScopeSSE, RequestTime).err = NoErr

\* a failed authentication: RecordFailure when there is a limiter; 429 when it
\* says the client is now locked and the middleware looks at that (the branch
\* of basicAuthMiddleware for a request without credentials does not)
RouteFailure(req, looks) ==
    IF serverLimiter(srv)
    THEN /\ failures' = RecordFailure(req.ip).failures
         /\ aLast' = Answer(req, IF looks /\ RecordFailure(req.ip).ret < 0 THEN 429 ELSE 401,
                            FALSE)
    ELSE /\ UNCHANGED failures
         /\ aLast' = Answer(req, 401, FALSE)

\* a successful basic authentication: RecordSuccess when there is a limiter
RouteSuccess(req) ==
    /\ failures' = IF serverLimiter(srv) THEN RecordSuccess(req.ip) ELSE failures
    /\ aLast' = Answer(req, 200, FALSE)

\* the middleware of the request from r.BasicAuth() on: basicAuthMiddleware,
\* or sseTokenMiddleware, which tries the token when basic auth did not succeed
RouteFinish(r) ==
    /\ reqPc[r] = "checked"
    /\ reqPc' = [reqPc EXCEPT ![r] = "idle"]
    /\ reqIn' = [reqIn EXCEPT ![r] = NilPtr]
    /\ \E req \in Requests(reqIn[r].ip, reqIn[r].path) :
          LET guard == reqIn[r].guard
          IN  IF req.creds = "ok"
              THEN RouteSuccess(req)
              ELSE IF guard = "sse" /\ sseTokenAccepts(req.token.text)
              THEN /\ aLast' = Answer(req, 200, FALSE)
                   /\ UNCHANGED failures
              ELSE RouteFailure(req, guard = "sse" \/ req.creds = "wrong")
    /\ UNCHANGED <<aSince, aTotal, aCount, aNow, authEnv>>
    /\ UNCHANGED <<cursorVars, queryVars, streamVars, lateVars>>
    /\ apiFrame

(***************************************************************************)
(* The ingester inserts and publishes while a stream handler is at work.   *)
(***************************************************************************)
ingestCore ==
    <<ingPc, eventsCh, errsCh, firstClosed, ingCtxDone, runErr, restarted, emitted, rows,
      parseFailures, currentWorld, players, deriveObs, notifierOn, calls, callbacks,
      deriveUpdates, pubCalls, enqCalls, callsBefore, srcVars, ingestEnv>>

\* the row InsertEvent writes for a new player_join of the latest instant
LiveRow == [ID |-> Cardinality(table) + 1, Ts |-> FormatTime(Instant(10, 0)),
            Type |-> "player_join"]

\* Ingester.handleEvent up to the callback: InsertEvent has inserted the row
LiveInsert ==
    /\ gPending = Nil
    /\ published < MaxLive
    /\ table' = table \cup {LiveRow}
    /\ gPending' = LiveRow.ID
    /\ UNCHANGED <<qFilter, qCursor, qResult, qPages>>
    /\ UNCHANGED <<cursorVars, streamVars, authVars, tokenVars, adapterVars, serverVars, cancelVars>>
    /\ apiFrame

\* the on_insert callback of main: hub.Publish(e) with the inserted event
LivePublish ==
    /\ gPending # Nil
    /\ ~panicked
    /\ published' = published + 1
    /\ PublishSelect(gPending)
    /\ gPending' = Nil
    /\ UNCHANGED <<hubPc, clients, bcastEv, bcastLeft, stopCloses, stopOnce,
                   subState, subVia, subEvents, eventsCloses, doneCloses, panicked,
                   offered, dropLog, recv, unsubCalls, stopPc>>
    /\ UNCHANGED <<notifyVars, ingestCore>>
    /\ UNCHANGED <<cursorVars, queryVars, streamVars, authVars, tokenVars, adapterVars, serverVars, cancelVars>>

(***************************************************************************)
(* Specifications.                                                         *)
(***************************************************************************)
\* no caller of the store or of the API
CursorIdle == curIn = EmptyString /\ curOut = NoCall

RowIdle == tmA = Instant(0, 0) /\ tmB = Instant(0, 0) /\ rowA = NoCall /\ rowB = NoCall

QueryIdle ==
    /\ table = {}
    /\ qFilter = NilPtr
    /\ qCursor = NilPtr
    /\ qResult = NoCall
    /\ qPages = <<>>

StreamIdle ==
    /\ sPc = "idle"
    /\ sLastID = NoCall
    /\ sCursor = NilPtr
    /\ sPage = 0
    /\ sFrames = <<>>
    /\ sStatus = 0
    /\ sBeats = 0

\* a limiter of the default configuration that no request has reached
AuthIdle ==
    /\ NewAuthFailureLimiter(DefaultAuthFailureLimiterConfig)
    /\ aNow = 1
    /\ reqPc = [r \in Reqs |-> "idle"]
    /\ reqIn = [r \in Reqs |-> NilPtr]
    /\ aLast = NoCall
    /\ aSince = [ip \in IPs |-> <<>>]
    /\ aTotal = [ip \in IPs |-> 0]
    /\ aCount = 0

TokenIdle == tkGen = NoCall /\ tkVal = NoCall

\* a forwarding task that has just been started
AdapterIdle ==
    /\ adPc = "select"
    /\ adEvents = TRUE
    /\ adErrs = TRUE
    /\ adHand = Nil
    /\ upClosed = FALSE
    /\ adCtxDone = FALSE
    /\ srcEventCh = <<>>
    /\ srcErrCh = <<>>
    /\ srcClosed = FALSE
    /\ outEv = <<>>
    /\ outEr = <<>>
    /\ recvEv = <<>>
    /\ recvEr = <<>>
    /\ droppedErrors = 0
    /\ lostErrors = 0

GapIdle == gPending = Nil

\* the server of the tests: no auth, no secret, no limiter
ServerIdle == srv = [authEnabled |-> FALSE, sseSecret |-> <<>>, afl |-> FALSE]

\* the client of the stream handler is there
CancelIdle == sCtx = FALSE

LateIdle == TokenIdle /\ AdapterIdle /\ GapIdle /\ ServerIdle /\ CancelIdle

ApiIdle == CursorIdle /\ RowIdle /\ QueryIdle /\ StreamIdle /\ AuthIdle /\ LateIdle

\* an ingester on a source with unbuffered channels
IngestIdle == NewIngester(TRUE) /\ IngesterEnv(0, MaxEmit) /\ ApiIdle

AllOn == [NotifyOnJoin |-> TRUE, NotifyOnLeave |-> TRUE, NotifyOnWorldJoin |-> TRUE]

NotifyIdle == NewNotifier(AllOn) /\ NotifierEnv(MaxQueueSize, MaxEnqueue, SendResults, {1})

InitHub == NewHub /\ NotifyIdle /\ IngestIdle

NextHub ==
    \/ \E s \in Subs : Subscribe(s)
    \/ \E s \in Subs : Unsubscribe(s)
    \/ NilCall
    \/ Publish
    \/ RunBroadcast
    \/ \E s \in Subs : RunDeliver(s)
    \/ RunStop
    \/ \E t \in Stoppers : StopCall(t)
    \/ \E t \in Stoppers : StopReturn(t)
    \/ \E s \in Subs : Read(s)

SpecHub == InitHub /\ [][NextHub]_vars

InitNotify ==
    /\ NewHub
    /\ IngestIdle
    /\ \E f \in Filters : NewNotifier(f)
    /\ NotifierEnv(MaxQueueSize, MaxEnqueue, SendResults, {1})

NextNotify ==
    \/ EnqueueCheck
    \/ EnqueueNil
    \/ EnqueueSend
    \/ Notifier_handleEvent
    \/ RunFlush
    \/ RunStopCh
    \/ RunCtxDone
    \/ SendReturn
    \/ TimerFire
    \/ \E t \in Stoppers : NotifierStop(t)
    \/ \E t \in Stoppers : NotifierStopReturn(t)
    \/ CtxCancel
    \/ Tick

SpecNotify == InitNotify /\ [][NextNotify]_vars

\* the notifier with a sender that always answers SendOK
InitBatch ==
    /\ NewHub
    /\ IngestIdle
    /\ \E f \in Filters : NewNotifier(f)
    /\ NotifierEnv(BatchQueueSize, BatchEnqueue, {"ok"}, {1})

SpecBatch == InitBatch /\ [][NextNotify]_vars

\* the notifier with several tasks that call Stop
InitStop ==
    /\ NewHub
    /\ IngestIdle
    /\ \E f \in Filters : NewNotifier(f)
    /\ NotifierEnv(MaxQueueSize, StopEnqueue, SendResults, Stoppers)

SpecStop == InitStop /\ [][NextNotify]_vars

InitIngest ==
    /\ NewHub
    /\ NotifyIdle
    /\ \E on \in BOOLEAN : NewIngester(on)
    /\ IngesterEnv(0, MaxEmit)
    /\ ApiIdle

NextIngest ==
    \/ IngesterStart
    \/ Ingester_handleEvent
    \/ Ingester_handleError
    \/ SourceClose
    \/ IngesterChannelClosed
    \/ IngesterCtxDone
    \/ IngesterExit
    \/ IngesterCtxCancel
    \/ Restart

SpecIngest == InitIngest /\ [][NextIngest]_vars

\* the ingester on a source with buffered channels
InitDrain ==
    /\ NewHub
    /\ NotifyIdle
    /\ NewIngester(TRUE)
    /\ IngesterEnv(SrcBuf, DrainEmit)
    /\ ApiIdle

NextDrain ==
    \/ NextIngest
    \/ SourceSend

SpecDrain == InitDrain /\ [][NextDrain]_vars

\* a derive.State and its callers
InitDerive == NewHub /\ NotifyIdle /\ IngestIdle

NextDerive == DeriveUpdate

SpecDerive == InitDerive /\ [][NextDerive]_vars

\* callers of decodeCursor and EncodeCursor
InitCursor ==
    /\ NewHub
    /\ NotifyIdle
    /\ NewIngester(TRUE)
    /\ IngesterEnv(0, MaxEmit)
    /\ curIn \in CursorStrings
    /\ curOut = NoCall
    /\ RowIdle
    /\ QueryIdle
    /\ StreamIdle
    /\ AuthIdle
    /\ LateIdle

NextCursor ==
    \/ CursorDecode
    \/ CursorEncode

SpecCursor == InitCursor /\ [][NextCursor]_vars

\* eventToRow on two events
InitRow ==
    /\ NewHub
    /\ NotifyIdle
    /\ NewIngester(TRUE)
    /\ IngesterEnv(0, MaxEmit)
    /\ CursorIdle
    /\ tmA \in Instants
    /\ tmB \in Instants
    /\ rowA = NoCall
    /\ rowB = NoCall
    /\ QueryIdle
    /\ StreamIdle
    /\ AuthIdle
    /\ LateIdle

NextRow == EventToRow

SpecRow == InitRow /\ [][NextRow]_vars

\* a caller of QueryEvents on a table that does not change
InitQuery ==
    /\ NewHub
    /\ NotifyIdle
    /\ NewIngester(TRUE)
    /\ IngesterEnv(0, MaxEmit)
    /\ CursorIdle
    /\ RowIdle
    /\ table \in Tables
    /\ qFilter \in QueryFilters
    /\ qCursor = qFilter.Cursor
    /\ qResult = NoCall
    /\ qPages = <<>>
    /\ StreamIdle
    /\ AuthIdle
    /\ LateIdle

NextQuery == QueryCall

SpecQuery == InitQuery /\ [][NextQuery]_vars

\* a client of the stream endpoint, and a hub that runs and is given LiveEvents
\* events while the handler is at work
InitStream ==
    /\ NewHub
    /\ NotifyIdle
    /\ NewIngester(TRUE)
    /\ IngesterEnv(0, MaxEmit)
    /\ CursorIdle
    /\ RowIdle
    /\ table \in StreamTables
    /\ qFilter = NilPtr
    /\ qCursor = NilPtr
    /\ qResult = NoCall
    /\ qPages = <<>>
    /\ StreamIdle
    /\ AuthIdle
    /\ LateIdle

NextStream ==
    \/ StreamRequest
    \/ StreamReplayPage
    \/ StreamSubscribe
    \/ StreamConnected
    \/ StreamReceive
    \/ StreamHeartbeat
    \/ StreamReturn
    \/ StreamUnsubscribe
    \/ StreamPublish
    \/ RunBroadcast
    \/ \E s \in Subs : RunDeliver(s)

SpecStream == InitStream /\ [][NextStream]_vars

\* a client of the stream endpoint while the ingester inserts and publishes
\* MaxLive new events
NextGap ==
    \/ StreamRequest
    \/ StreamReplayPage
    \/ StreamSubscribe
    \/ StreamConnected
    \/ StreamReceive
    \/ StreamReturn
    \/ StreamUnsubscribe
    \/ LiveInsert
    \/ LivePublish
    \/ RunBroadcast
    \/ \E s \in Subs : RunDeliver(s)

SpecGap == InitStream /\ [][NextGap]_vars

\* a client of the stream endpoint that may go away, and a hub that may be
\* stopped, at any time
InitCancel == InitStream /\ table = {}

NextCancel ==
    \/ StreamRequest
    \/ StreamReplayPage
    \/ StreamSubscribe
    \/ StreamConnected
    \/ StreamReceive
    \/ StreamCancel
    \/ StreamLoopReturn
    \/ StreamUnsubscribe
    \/ StreamPublish
    \/ RunBroadcast
    \/ \E s \in Subs : RunDeliver(s)
    \/ RunStop
    \/ \E t \in Stoppers : StopCall(t)
    \/ \E t \in Stoppers : StopReturn(t)

\* the handler's task and Run's task keep running: a ready case of the
\* handler's select is taken, the deferred Unsubscribe is called and Run comes
\* back to its select after a broadcast
SpecCancel ==
    /\ InitCancel
    /\ [][NextCancel]_vars
    /\ WF_vars(StreamLoopReturn)
    /\ WF_vars(StreamUnsubscribe)
    /\ \A s \in Subs : WF_vars(RunDeliver(s))

\* clients of one address behind basicAuthMiddleware, two requests at a time,
\* under each configuration of the limiter
InitAuth ==
    /\ NewHub
    /\ NotifyIdle
    /\ NewIngester(TRUE)
    /\ IngesterEnv(0, MaxEmit)
    /\ CursorIdle
    /\ RowIdle
    /\ QueryIdle
    /\ StreamIdle
    /\ \E cfg \in AuthConfigs : NewAuthFailureLimiter(cfg)
    /\ aNow = 1
    /\ reqPc = [r \in Reqs |-> "idle"]
    /\ reqIn = [r \in Reqs |-> NilPtr]
    /\ aLast = NoCall
    /\ aSince = [ip \in IPs |-> <<>>]
    /\ aTotal = [ip \in IPs |-> 0]
    /\ aCount = 0
    /\ LateIdle

NextAuth ==
    \/ \E r \in Reqs : AuthArrive(r)
    \/ \E r \in Reqs : AuthFinish(r)
    \/ AuthTick

SpecAuth == InitAuth /\ [][NextAuth]_vars

\* callers of InsertEvent with valid and invalid events
InitInsert == NewHub /\ NotifyIdle /\ IngestIdle

NextInsert == StoreInsert

SpecInsert == InitInsert /\ [][NextInsert]_vars

\* a second passes, once: the token issued DefaultTTL seconds before the clock
\* started expires
RouteTick == aNow < 1 /\ AuthTick

\* requests to the paths of a server, two of them inside a middleware at once
InitRoutes ==
    /\ NewHub
    /\ NotifyIdle
    /\ NewIngester(TRUE)
    /\ IngesterEnv(0, MaxEmit)
    /\ CursorIdle
    /\ RowIdle
    /\ QueryIdle
    /\ StreamIdle
    /\ NewAuthFailureLimiter([MaxFailures |-> MaxFailures, Window |-> LockoutSeconds + 1,
                              LockoutPeriod |-> LockoutSeconds])
    /\ aNow = 0
    /\ reqPc = [r \in Reqs |-> "idle"]
    /\ reqIn = [r \in Reqs |-> NilPtr]
    /\ aLast = NoCall
    /\ aSince = [ip \in IPs |-> <<>>]
    /\ aTotal = [ip \in IPs |-> 0]
    /\ aCount = 0
    /\ TokenIdle
    /\ AdapterIdle
    /\ GapIdle
    /\ srv \in Servers
    /\ CancelIdle

NextRoutes ==
    \/ \E r \in Reqs : RouteArrive(r)
    \/ \E r \in Reqs : RouteFinish(r)
    \/ RouteTick

SpecRoutes == InitRoutes /\ [][NextRoutes]_vars

\* a token is generated and validated again and again
InitToken ==
    /\ NewHub
    /\ NotifyIdle
    /\ NewIngester(TRUE)
    /\ IngesterEnv(0, MaxEmit)
    /\ CursorIdle
    /\ RowIdle
    /\ QueryIdle
    /\ StreamIdle
    /\ AuthIdle
    /\ TokenIdle
    /\ AdapterIdle
    /\ GapIdle
    /\ ServerIdle
    /\ CancelIdle

NextToken == TokenGenerate \/ TokenValidate

SpecToken == InitToken /\ [][NextToken]_vars

\* the forwarding task between a watcher and a reader that are slow or fast
InitAdapter == IngestIdle /\ NewHub /\ NotifyIdle

NextAdapter ==
    \/ AdapterRecvEvent
    \/ AdapterSendEvent
    \/ AdapterEventsClosed
    \/ AdapterRecvError
    \/ AdapterErrsClosed
    \/ AdapterCtxDone
    \/ UpstreamClose
    \/ AdapterCancel
    \/ ConsumeEvent
    \/ ConsumeError

SpecAdapter == InitAdapter /\ [][NextAdapter]_vars

(***************************************************************************)
(* Properties of the hub.                                                  *)
(***************************************************************************)
StrictlyIncreasing(q) == \A i, j \in 1..Len(q) : i < j => q[i] < q[j]
AllButLast(q) == IF q = <<>> THEN <<>> ELSE SubSeq(q, 1, Len(q) - 1)

\* what subscriber s has been given so far: what its reader took, then its buffer
Got(s) == recv[s] \o subEvents[s]
\* s is still to be visited by the range loop of the broadcast in progress
InFlight(s) == hubPc = "bcast" /\ s \in bcastLeft
\* the events of whose fate for s the loop has decided
Decided(s) == IF InFlight(s) THEN AllButLast(offered[s]) ELSE offered[s]
DroppedFor(s) == {d.ev : d \in {x \in dropLog : x.sub = s}}

\* C3: Publish never blocks its caller (its select has a step to take in every
\* state, a full broadcast channel leading to a drop), and the hub loop never
\* waits on a subscriber: each iteration of its range loop has a step to take
\* whatever the subscriber's buffer holds; no channel exceeds its capacity.
C3_PublishNeverBlocks ==
    /\ published < MaxPublish => ENABLED Publish
    /\ \A s \in Subs : InFlight(s) => ENABLED RunDeliver(s)
    /\ Len(broadcast) <= BroadcastCap
    /\ \A s \in Subs : Len(subEvents[s]) <= SubBuf
    /\ \A e \in pubDropped : e \notin Range(broadcast) /\ \A s \in Subs : e \notin Range(offered[s])

\* a Publish found the broadcast channel full and dropped, and the loop dropped
\* an event for a subscriber whose buffer was full
C3_Witness ==
    /\ pubDropped # {}
    /\ \E d \in dropLog : d.len = SubBuf
    /\ ~stopped

\* C4: what a subscriber receives is a subsequence of the publish order
\* (events are numbered in publish order: strictly increasing, so no reorder
\* and no duplicate), and a subscriber for which nothing was dropped receives
\* exactly the events broadcast while it was registered, in that order.
C4_PublishOrder ==
    \A s \in Subs :
        /\ StrictlyIncreasing(Got(s))
        /\ Range(Got(s)) \subseteq 1..published
        /\ DroppedFor(s) = {} => Got(s) = Decided(s)

\* a subscriber has taken two events or more, nothing dropped for it, while
\* the other subscriber lost one
C4_Witness ==
    \E s, r \in Subs :
        /\ Len(recv[s]) >= 2
        /\ DroppedFor(s) = {}
        /\ DroppedFor(r) # {}

\* C5: a subscriber whose buffer is full costs the other subscribers nothing:
\* every event broadcast while a subscriber was registered either reached that
\* subscriber or was dropped for it because its own buffer was full.
C5_SlowReaderIsolated ==
    \A s \in Subs :
        \A e \in Range(Decided(s)) :
            \/ e \in Range(Got(s))
            \/ \E d \in dropLog : d.sub = s /\ d.ev = e /\ d.len = SubBuf

\* a subscriber that never read has a full buffer and lost an event that the
\* other subscriber received
C5_Witness ==
    \E s, r \in Subs :
        /\ recv[s] = <<>>
        /\ Len(subEvents[s]) = SubBuf
        /\ \E e \in DroppedFor(s) : e \in Range(Got(r))

\* C6: Stop, called by several tasks at any times, never panics; a call returns
\* only once Run has exited, and then the done and events channels of every
\* subscriber in clients at that time are closed (exactly once).
C6_StopSafe ==
    /\ ~panicked
    /\ stopCloses <= 1
    /\ \A t \in Stoppers :
           stopPc[t] = "returned" =>
               /\ stopped
               /\ \A s \in clients : doneCloses[s] = 1 /\ eventsCloses[s] = 1

\* both tasks called Stop and returned, with a subscriber registered at stop time
C6_Witness ==
    /\ \A t \in Stoppers : stopPc[t] = "returned"
    /\ clients # {}

\* C7, state part: a subscriber returned by Subscribe on a stopped hub has both
\* channels closed and never entered clients; once the hub has stopped neither
\* Subscribe nor Unsubscribe blocks.
C7_State ==
    /\ \A s \in Subs :
           subVia[s] = "stopped" =>
               doneCloses[s] = 1 /\ eventsCloses[s] = 1 /\ s \notin clients
    /\ stopped =>
           \A s \in Subs :
               /\ subState[s] = "none" => ENABLED Subscribe(s)
               /\ (subState[s] = "live" /\ unsubCalls[s] < MaxUnsub) => ENABLED Unsubscribe(s)

\* C7, step part: an Unsubscribe that is not the first one for its subscriber,
\* or that is made on a stopped hub, changes nothing of the hub.
C7_Step ==
    \A s \in Subs :
        (unsubCalls'[s] > unsubCalls[s] /\ (unsubCalls[s] >= 1 \/ stopped)) =>
            UNCHANGED <<hubPc, clients, subEvents, eventsCloses, doneCloses, panicked>>

\* C7: Subscribe on a stopped hub returns a closed subscriber; Unsubscribe is
\* idempotent and a no-op on a stopped hub; neither blocks once the hub stopped.
C7_SubscribeUnsubscribe == []C7_State /\ [][C7_Step]_vars

\* a subscriber was obtained from the stopped hub, and another one, registered
\* before, was unsubscribed twice, the second time before the hub stopped
C7_Witness ==
    /\ stopped
    /\ \E s, r \in Subs :
           /\ subVia[s] = "stopped"
           /\ subVia[r] = "register"
           /\ unsubCalls[r] = 2
           /\ r \notin clients

\* C35: whatever the interleaving of Subscribe, Unsubscribe (also repeated for
\* one subscriber), Publish and Stop, no close of a closed channel and no send
\* on a closed channel happens (either would panic): each channel of a
\* subscriber is closed at most once, the subscribers Run still has to send the
\* event in hand to have open events channels, and the events channel of a
\* subscriber is closed exactly when its done channel is.
C35_ChannelsClosedOnce ==
    /\ ~panicked
    /\ \A s \in Subs :
           /\ doneCloses[s] <= 1
           /\ eventsCloses[s] = doneCloses[s]
           /\ (s \in clients /\ ~stopped) => eventsCloses[s] = 0
    /\ \A s \in bcastLeft : eventsCloses[s] = 0

\* a subscriber unsubscribed twice and a subscriber closed by Stop, after an
\* event was delivered, and a late subscriber closed by Subscribe
C35_Witness ==
    /\ stopped
    /\ \E s, r \in Subs :
           /\ s # r
           /\ unsubCalls[s] = 2
           /\ subVia[s] = "register"
           /\ eventsCloses[s] = 1
           /\ r \in clients
           /\ eventsCloses[r] = 1
           /\ recv[r] # <<>>

(***************************************************************************)
(* Properties of the notifier.                                             *)
(***************************************************************************)
\* e is still pending: it is in the queue, or a newer event of its key took its place
Pending(e) ==
    \E i \in 1..Len(queue) :
        \/ queue[i] = e
        \/ eventKey(e) # "" /\ eventKey(queue[i]) = eventKey(e) /\ queue[i].id > e.id

\* C8: once a send has returned Fatal the status is disabled, with the reason
\* and the instant of that result recorded, and sender.Send is not called
\* again, whatever Enqueue calls, timer firings, Stop or cancellation follow.
C8_FatalStopsSends ==
    fatalAt >= 0 =>
        /\ disabled
        /\ disabledReason # ""
        /\ disabledAt = fatalAt
        /\ ~sentAfterFatal

\* C9: after a send returned Retryable with retry_after = d, no call of
\* sender.Send starts before d has elapsed since that result, whatever is
\* enqueued, whichever timers fire and whether Stop or cancellation happen.
C9_BackoffRespected == nPc = "send" => sendStart >= notBefore

\* C9 witness: a send is in flight that started after a Retry-After window
\* in which a flush had found the queue non-empty and kept it.
C9_Witness ==
    /\ nPc = "send"
    /\ notBefore > 0
    /\ skipped
    /\ sendStart >= notBefore

\* C10: the events of a batch answered Retryable stay pending (queued, or
\* coalesced into a newer event of the same key) until a later send carries
\* them, as long as Run has not returned: a transient failure loses no batch.
C10_RetryKeepsBatch == nPc # "done" => \A e \in failed : Pending(e)

\* C11: when a flush finds the queue non-empty inside a backoff window, the
\* events stay queued and a timer is armed that fires when the backoff ends
\* (or a flush is already signalled), so the queue is sent without a further
\* enqueue or a stop.
C11_BackoffRearms ==
    (nPc = "select" /\ skipped /\ queue # <<>>) =>
        \/ flushCh
        \/ \E d \in timers : d >= backoffUntil

\* the step of the run loop that handles an event: handleEvent
HandleStep == eventCh # <<>> /\ eventCh' = Tail(eventCh)

IsSuffix(s, q) == Len(s) <= Len(q) /\ s = SubSeq(q, Len(q) - Len(s) + 1, Len(q))

KeysOf(q) == [i \in 1..Len(q) |-> eventKey(q[i])]

C12_State == Len(queue) <= maxQueueSize

C12_Step ==
    HandleStep =>
        LET c == coalesceQueueLocked(Append(queue, Head(eventCh)))
        IN  /\ IsSuffix(queue', c)
            /\ Len(queue') = IF Len(c) > maxQueueSize THEN maxQueueSize ELSE Len(c)

\* C12: after every handled event the queue holds at most max_queue_size
\* events; when the coalesced queue is longer, the oldest entries are removed
\* and the newest max_queue_size remain in their order.
C12_QueueBounded == []C12_State /\ [][C12_Step]_vars

\* C12 witness: the run loop has dropped old events and the queue is full.
C12_Witness == overflowed /\ Len(queue) = maxQueueSize /\ nPc = "select"

C13_State ==
    \A i, j \in 1..Len(queue) :
        (i # j /\ eventKey(queue[i]) # "") => eventKey(queue[i]) # eventKey(queue[j])

C13_Step ==
    HandleStep =>
        LET ev == Head(eventCh)
            k == eventKey(ev)
            old == KeysOf(queue)
        IN  /\ ev \in Range(queue')
            /\ \A e \in Range(queue') : e = ev \/ (e \in Range(queue) /\ eventKey(e) # k)
            /\ IsSuffix(KeysOf(queue'),
                        IF k # "" /\ k \in Range(old) THEN old ELSE Append(old, k))

\* C13: after every handled event the queue holds at most one event per key;
\* the event kept for a key is the one enqueued last, and the keys stay in
\* the order in which each was first seen.
C13_Coalesced == []C13_State /\ [][C13_Step]_vars

\* C13 witness: an older event was replaced in place by a newer one of its
\* key, ahead of an event of another key that was enqueued in between.
C13_Witness ==
    /\ replaced
    /\ Len(queue) >= 2
    /\ queue[1].id > queue[2].id

\* the event IDs the embeds of a payload carry, in embed order
RECURSIVE EmbedEvents(_)
EmbedEvents(embeds) ==
    IF embeds = <<>> THEN <<>> ELSE Head(embeds).events \o EmbedEvents(Tail(embeds))

Titles(embeds) == [i \in 1..Len(embeds) |-> embeds[i].title]

TitleRank(title) ==
    CASE title = "World Changed" -> 1
      [] title = "Player Joined" -> 2
      [] OTHER -> 3

C14_State ==
    nPc = "send" =>
        /\ Len(sendLeft) = 1
        /\ LET embeds == sendLeft[1]
               titles == Titles(embeds)
           IN  /\ \A i, j \in 1..Len(embeds) :
                     i < j => /\ TitleRank(titles[i]) <= TitleRank(titles[j])
                              /\ titles[i] = titles[j] => titles[i] = "World Changed"
               /\ \A i \in 1..Len(embeds) :
                     /\ embeds[i].events # <<>>
                     /\ titles[i] = "World Changed" => Len(embeds[i].events) = 1
                     /\ \A n \in 1..Len(embeds[i].events) :
                           \E e \in Range(batch) :
                               /\ e.id = embeds[i].events[n]
                               /\ e.type = CASE titles[i] = "World Changed" -> "world_changed"
                                             [] titles[i] = "Player Joined" -> "player_joined"
                                             [] OTHER -> "player_left"
               /\ Len(EmbedEvents(embeds)) = Len(batch)
               /\ Range(EmbedEvents(embeds)) = {e.id : e \in Range(batch)}
               /\ \A i, j \in 1..Len(batch) :
                     i # j => eventKey(batch[i]) # eventKey(batch[j])

C14_Step == (nPc = "select" /\ nPc' = "send") => (batch' = queue /\ queue' = <<>>)

Keys == {SHA256Hex(ev.RawLine) : ev \in SourceEvents}

\* the InsertEvent calls made with a valid event of key k that the database
\* engine did not fail
CallsOf(k) == {i \in 1..Len(calls) : calls[i].key = k /\ calls[i].valid /\ ~calls[i].dbFail}

RowsOf(k) == {i \in 1..Len(rows) : rows[i].DedupeKey = k}

\* C15: Notifier.Stop may be called by several tasks, in any interleaving:
\* n.stopCh is closed exactly once and never a second time; a task is in or
\* past Stop's select only when n.stopCh is closed; Stop returns nil only
\* when Run has returned (n.doneCh closed); Run returns only after the stop
\* signal or the cancellation of its context, and when it has returned its
\* final flush has taken the whole queue, unless that flush found the
\* backoff window open (best-effort: the events then stay in the queue).
C15_StopOnce ==
    /\ ~nPanicked
    /\ stopChClosed = nStopOnce
    /\ \A t \in Stoppers : nStopPc[t] # "idle" => stopChClosed
    /\ \A t \in Stoppers : nStopPc[t] = "nil" => nPc = "done"
    /\ nPc = "done" => /\ stopChClosed \/ ctxDone
                       /\ queue = <<>> \/ skipped
                       /\ sendLeft = <<>>

\* both tasks called Stop and both got nil, and the batch was sent by the
\* final flush: no second has passed, so the batch timer has not fired
C15_Witness ==
    /\ \A t \in Stoppers : nStopPc[t] = "nil"
    /\ nPc = "done"
    /\ sendStart = 0
    /\ now = 0
    /\ enqueued > 0
    /\ queue = <<>>


\* C16: Enqueue never blocks: a call past its checks can always take its
\* last step, whatever the state of the channel and of the run loop.  A call
\* gets past the checks only with the notifier not disabled at that instant
\* and an event type the filter accepts, and until then changes nothing; its
\* last step appends the event to eventCh when there is room and otherwise
\* changes nothing but the caller (the event is dropped); Enqueue never
\* touches the queue, the queue only takes the head of eventCh, and so every
\* event in eventCh or in the queue has passed the filter.
C16_State ==
    /\ enqPc = "checked" => ENABLED EnqueueSend
    /\ Len(eventCh) <= EventChCap
    /\ \A e \in Range(eventCh) \cup Range(queue) : shouldNotify(e) /\ e.id <= enqueued

C16_Step ==
    /\ enqueued' # enqueued =>
          /\ enqPc = "idle"
          /\ <<eventCh, queue>>' = <<eventCh, queue>>
          /\ enqPc' = "checked" => ~disabled /\ shouldNotify(enqEv') /\ enqEv'.id = enqueued'
          /\ disabled => enqPc' = "idle"
    /\ (enqPc = "checked" /\ enqPc' = "idle") =>
          /\ queue' = queue
          /\ eventCh' = IF Len(eventCh) < EventChCap THEN Append(eventCh, enqEv) ELSE eventCh
    /\ queue' # queue =>
          \/ queue' = <<>>
          \/ /\ eventCh # <<>>
             /\ Range(queue') \subseteq Range(queue) \cup {Head(eventCh)}

C16_EnqueueNeverBlocks == []C16_State /\ [][C16_Step]_vars

\* with every filter on and the notifier not disabled, the second Enqueue
\* has returned while the first event still fills eventCh and the run loop
\* has handled nothing: the second event was dropped on the full channel
C16_Witness ==
    /\ enqueued = EventChCap + 1
    /\ enqPc = "idle"
    /\ Len(eventCh) = EventChCap
    /\ \A i \in 1..Len(eventCh) : eventCh[i].id = i
    /\ queue = <<>>
    /\ ~timerHandle
    /\ sendStart = -1
    /\ ~disabled
    /\ filter = AllOn


\* the key of a player event as the specification states it: player_id if
\* non-empty, else player_name ("" when neither is there)
KeyOf(e) ==
    IF e.PlayerID # NilStr /\ e.PlayerID # "" THEN e.PlayerID
    ELSE IF e.PlayerName # NilStr THEN e.PlayerName
    ELSE ""

\* the step is a call of Update with an event of type ty
UpdateOf(ty) == upTick' # upTick /\ upEv' # NilPtr /\ upEv'.Type = ty

\* the call of the step returned nil and left the derive state as it was
NullAndUnchanged ==
    /\ upRet'.derived = NilStr
    /\ currentWorld' = currentWorld
    /\ players' = players

\* C17: every Update with a world_join returns WorldChanged with the world
\* that was current before the call as PrevWorld, makes the event's world
\* (world id, joined_at) the current world and leaves the players map empty;
\* in every state the players are keys of player_join events processed since
\* the most recent world_join.
C17_State ==
    /\ players \subseteq joinedSince
    /\ "" \notin players
    /\ (upEv # NoCall /\ upEv # NilPtr /\ upEv.Type = "world_join") => players = {}

C17_Step ==
    UpdateOf("world_join") =>
        /\ upRet' = [derived |-> "world_changed", prev |-> currentWorld]
        /\ currentWorld' # NilPtr
        /\ currentWorld'.JoinedAt = upEv'.Ts
        /\ currentWorld'.WorldID = (IF upEv'.WorldID = NilStr THEN "" ELSE upEv'.WorldID)
        /\ players' = {}

C17_WorldJoinClears == []C17_State /\ [][C17_Step]_vars

\* a world_join processed with players present and a different world before:
\* it returned that world as PrevWorld and the players are gone, although
\* player_join events were processed before it
C17_Witness ==
    /\ upEv # NoCall /\ upEv # NilPtr /\ upEv.Type = "world_join"
    /\ upRet.derived = "world_changed"
    /\ upRet.prev # NilPtr
    /\ upRet.prev # currentWorld
    /\ players = {}

\* C18: an Update with a player_join returns PlayerJoined and adds the key
\* exactly when the key is non-empty and not yet among the players, and then
\* changes nothing else; otherwise it returns nil and changes nothing.  So a
\* player_join right after a player_join of the same key that returned
\* PlayerJoined returns nil, and the player count stays what it was.
C18_Step ==
    UpdateOf("player_join") =>
        LET key == KeyOf(upEv')
        IN  /\ IF key # "" /\ key \notin players
               THEN /\ upRet' = [derived |-> "player_joined", prev |-> NilPtr]
                    /\ players' = players \cup {key}
                    /\ currentWorld' = currentWorld
               ELSE NullAndUnchanged
            /\ (/\ upEv # NoCall /\ upEv # NilPtr /\ upEv.Type = "player_join"
                /\ KeyOf(upEv) = key
                /\ upRet.derived = "player_joined")
               => /\ upRet'.derived = NilStr
                  /\ Cardinality(players') = Cardinality(players)

C18_PlayerJoinDedup == [][C18_Step]_vars

\* a player_join of a key already present was processed: nil, one player
C18_Witness ==
    /\ upEv # NoCall /\ upEv # NilPtr /\ upEv.Type = "player_join"
    /\ upRet.derived = NilStr
    /\ KeyOf(upEv) # ""
    /\ players = {KeyOf(upEv)}
    /\ joinedSince = players

\* C19: an Update with a player_left returns PlayerLeft and removes the key
\* exactly when the key is among the players, and then changes nothing else;
\* an Update with a player_left of a key not present or empty, with nil, or
\* with an event of another type returns nil and changes neither the
\* current world nor the players.
C19_Step ==
    /\ UpdateOf("player_left") =>
          LET key == KeyOf(upEv')
          IN  IF key \in players
              THEN /\ upRet' = [derived |-> "player_left", prev |-> NilPtr]
                   /\ players' = players \ {key}
                   /\ currentWorld' = currentWorld
              ELSE NullAndUnchanged
    /\ (upTick' # upTick /\ upEv' = NilPtr) => NullAndUnchanged
    /\ (upTick' # upTick /\ upEv' # NilPtr
          /\ upEv'.Type \notin {"world_join", "player_join", "player_left"})
          => NullAndUnchanged
    /\ (upTick' # upTick /\ upEv' # NilPtr /\ upEv'.Type \in {"player_join", "player_left"}
          /\ KeyOf(upEv') = "")
          => NullAndUnchanged

C19_PlayerLeft == [][C19_Step]_vars

\* a player_left of a present player was processed in a world with another
\* player: the key is gone, the other player and the world are still there
C19_Witness ==
    /\ upEv # NoCall /\ upEv # NilPtr /\ upEv.Type = "player_left"
    /\ upRet.derived = "player_left"
    /\ KeyOf(upEv) \in joinedSince \ players
    /\ players # {}
    /\ currentWorld # NilPtr


\* the world and the players that a sequence of events describes: a
\* world_join makes its world the current one and empties the players, a
\* player_join adds its key, a player_left removes it
RECURSIVE Reflect(_)
Reflect(evs) ==
    IF evs = <<>> THEN [world |-> NilPtr, players |-> {}]
    ELSE LET before == Reflect(SubSeq(evs, 1, Len(evs) - 1))
             e == evs[Len(evs)]
         IN  IF e.Type = "world_join"
             THEN [world |-> [WorldID |-> IF e.WorldID = NilStr THEN "" ELSE e.WorldID,
                              JoinedAt |-> e.Ts],
                   players |-> {}]
             ELSE IF e.Type = "player_join" /\ KeyOf(e) # ""
             THEN [world |-> before.world, players |-> before.players \cup {KeyOf(e)}]
             ELSE IF e.Type = "player_left"
             THEN [world |-> before.world, players |-> before.players \ {KeyOf(e)}]
             ELSE before

\* the events the source has delivered since the restart and the store has
\* accepted or already holds (InsertEvent returned no error), in order
ReplayedEvents ==
    LET idx == {k \in (callsBefore + 1)..Len(calls) : calls[k].err = NoErr}
        ord == CHOOSE f \in [1..Cardinality(idx) -> idx] :
                  \A a, b \in 1..Cardinality(idx) : a < b => f[a] < f[b]
    IN  [n \in 1..Cardinality(idx) |->
            ToStoreEventWithClock(
                CHOOSE s \in SourceEvents : SHA256Hex(s.RawLine) = calls[ord[n]].key, 0)]

\* since the restart the source has delivered no line twice
ReplayedOnce ==
    \A a, b \in (callsBefore + 1)..Len(calls) : a # b => calls[a].key # calls[b].key

\* C20: after a restart, the current world and the players of Derive are
\* those that the events replayed since the restart describe (each line of
\* the replay window delivered once, whether the store already holds it or not).
C20_ReplayRepopulates ==
    (restarted /\ ReplayedOnce) =>
        /\ currentWorld = Reflect(ReplayedEvents).world
        /\ players = Reflect(ReplayedEvents).players


\* C21: an item the source has sent is never skipped: Run sets a channel
\* variable to nil only when the channel's buffer is empty, and has returned
\* nil only with both buffers empty; while one channel variable is nil, Run
\* can still receive what the other channel holds; every item leaves its
\* buffer in the order sent and through its handler (an event in an
\* InsertEvent call with its dedupe key, an error in handleError).
C21_State ==
    /\ eventsCh = "nil" => evBuf = <<>>
    /\ errsCh = "nil" => erBuf = <<>>
    /\ (ingPc = "returned" /\ runErr = NoErr) =>
          /\ evBuf = <<>> /\ erBuf = <<>>
          /\ eventsCh = "nil" /\ errsCh = "nil"
    /\ (ingPc = "run" /\ eventsCh = "nil" /\ erBuf # <<>>) => ENABLED Ingester_handleError
    /\ (ingPc = "run" /\ errsCh = "nil" /\ evBuf # <<>>) => ENABLED Ingester_handleEvent

C21_Step ==
    /\ (ingPc' = "run" /\ evBuf' # evBuf) =>
          \/ \E ev \in SourceEvents : evBuf' = Append(evBuf, ev)
          \/ /\ evBuf # <<>>
             /\ evBuf' = Tail(evBuf)
             /\ Len(calls') = Len(calls) + 1
             /\ calls'[Len(calls')].key = SHA256Hex(Head(evBuf).RawLine)
    /\ (ingPc' = "run" /\ erBuf' # erBuf) =>
          \/ \E er \in SourceErrors : erBuf' = Append(erBuf, er)
          \/ /\ erBuf # <<>>
             /\ erBuf' = Tail(erBuf)
             /\ parseFailures \subseteq parseFailures'
             /\ parseFailures' \subseteq parseFailures \cup {SHA256Hex(Head(erBuf).Line)}

C21_DrainsBothStreams == []C21_State /\ [][C21_Step]_vars

\* the errors channel was closed first, a buffered event was received after
\* its variable was nil, and Run returned nil
C21_Witness ==
    /\ drained
    /\ firstClosed = "errs"
    /\ calls # <<>>
    /\ ~restarted
    /\ ingPc = "returned"
    /\ runErr = NoErr


\* Run has returned the cancellation error with its context cancelled, or
\* nil with both channel variables nil and its context not cancelled
CancelledOrDrained ==
    \/ runErr' = "context canceled" /\ ingCtxDone
    \/ runErr' = NoErr /\ ~ingCtxDone /\ eventsCh = "nil" /\ errsCh = "nil"

\* C22 as stated: whenever Run returns, it returns the cancellation error
\* after a cancellation or nil after both streams have closed without one.
C22_TwoWaysOnly == [][(ingPc # "returned" /\ ingPc' = "returned") => CancelledOrDrained]_vars

\* C22 amended: Run returns at once with an error when the source fails to
\* start (or hands out a nil channel), before it has received anything;
\* once in its loop it returns only the cancellation error, with the context
\* cancelled, or nil, with both streams closed and the context not cancelled,
\* and so never while a stream is open and the context is not cancelled.
C22_State ==
    ingPc = "returned" =>
        \/ runErr = "source start failed"
        \/ runErr = "context canceled" /\ ingCtxDone
        \/ runErr = NoErr /\ eventsCh = "nil" /\ errsCh = "nil"

C22_Step ==
    (ingPc # "returned" /\ ingPc' = "returned") =>
        IF ingPc = "start"
        THEN /\ runErr' = "source start failed"
             /\ <<rows, parseFailures, calls, eventsCh, errsCh>>' =
                   <<rows, parseFailures, calls, eventsCh, errsCh>>
        ELSE CancelledOrDrained

C22_RunReturns == []C22_State /\ [][C22_Step]_vars

\* Run returned nil after it had handled an event and both streams had closed
C22_Witness ==
    /\ ingPc = "returned"
    /\ runErr = NoErr
    /\ ~ingCtxDone
    /\ ~restarted
    /\ calls # <<>>
    /\ firstClosed = "events"


\* C23: a call of InsertEvent that returns an error adds no row, invokes no
\* callback (no Derive update, no publish, no enqueue) and leaves Run in its
\* loop with both channel variables as they were; and while Run is in its
\* loop with the events channel not yet nil, it can handle the next event
\* whenever there is one, whatever the earlier calls returned.
C23_State ==
    (ingPc = "run" /\ eventsCh # "nil" /\ evBuf # <<>>) => ENABLED Ingester_handleEvent

C23_Step ==
    (Len(calls') = Len(calls) + 1 /\ calls'[Len(calls')].err # NoErr) =>
        /\ <<rows, callbacks, deriveUpdates, pubCalls, enqCalls, currentWorld, players>>' =
              <<rows, callbacks, deriveUpdates, pubCalls, enqCalls, currentWorld, players>>
        /\ <<ingPc, eventsCh, errsCh, runErr>>' = <<"run", eventsCh, errsCh, runErr>>

C23_InsertErrorDropped == []C23_State /\ [][C23_Step]_vars

\* an InsertEvent call failed in the database engine, and the next event
\* was inserted and given to the callback
C23_Witness ==
    /\ ~restarted
    /\ Len(calls) = 2
    /\ calls[1].dbFail /\ calls[1].valid /\ calls[1].err # NoErr
    /\ calls[2].inserted
    /\ Len(callbacks) = 1


\* C1: of the InsertEvent calls made with valid events of one dedupe_key,
\* exactly one (the first) returns inserted=true, every other one returns
\* (0, false) and no error, and the table holds one row of that key from the
\* first insert on.
C1_InsertDedupe ==
    \A k \in Keys :
        /\ \A i \in CallsOf(k) :
              IF \A j \in CallsOf(k) : i <= j
              THEN calls[i].inserted /\ calls[i].id > 0 /\ calls[i].err = NoErr
              ELSE ~calls[i].inserted /\ calls[i].id = 0 /\ calls[i].err = NoErr
        /\ Cardinality(RowsOf(k)) = IF CallsOf(k) = {} THEN 0 ELSE 1

\* C1 witness: a key was inserted, inserted again without effect, and a row
\* of another key is stored too.
C1_Witness ==
    /\ Len(rows) >= 2
    /\ \E k \in Keys : \E i, j \in CallsOf(k) : i < j /\ calls[i].inserted /\ ~calls[j].inserted

\* the IDs InsertEvent returned with inserted=true, in call order
RECURSIVE InsertedIDs(_)
InsertedIDs(cs) ==
    IF cs = <<>> THEN <<>>
    ELSE IF Head(cs).inserted THEN <<Head(cs).id>> \o InsertedIDs(Tail(cs))
    ELSE InsertedIDs(Tail(cs))

C2_State ==
    /\ callbacks = InsertedIDs(calls)
    /\ callbacks = [i \in 1..Len(rows) |-> rows[i].ID]
    /\ deriveUpdates = callbacks
    /\ pubCalls = callbacks
    /\ Range(enqCalls) \subseteq Range(callbacks)
    /\ StrictlyIncreasing(enqCalls)

C2_Step ==
    (<<callbacks, deriveUpdates, pubCalls, enqCalls, currentWorld, players>>' #
        <<callbacks, deriveUpdates, pubCalls, enqCalls, currentWorld, players>>
     /\ ~(restarted' /\ ~restarted))
    => /\ Len(calls') = Len(calls) + 1
       /\ calls'[Len(calls')].inserted
       /\ calls'[Len(calls')].err = NoErr
       /\ callbacks' = Append(callbacks, calls'[Len(calls')].id)

\* C2: on_insert is called exactly once for each event whose InsertEvent
\* returned inserted=true, in insert order, and never for inserted=false or
\* an error; a line the source emits again (after a restart too) changes
\* neither the Derive state nor the calls of hub.Publish and notifier.Enqueue.
C2_OnInsertOncePerInsert == []C2_State /\ [][C2_Step]_vars

\* C2 witness: after a restart a line already stored was emitted again, its
\* insert returned (0, false, nil), and on_insert has run once per stored row.
C2_Witness ==
    /\ restarted
    /\ callbacks # <<>>
    /\ Len(callbacks) = Len(rows)
    /\ calls # <<>>
    /\ LET c == calls[Len(calls)]
       IN  ~c.inserted /\ c.err = NoErr /\ Len(calls) > callsBefore
           /\ \E i \in 1..callsBefore : calls[i].key = c.key /\ calls[i].inserted
    /\ ingPc = "run"

(***************************************************************************)
(* Properties of the store's queries and cursors.                          *)
(***************************************************************************)
\* the items of all pages, one after another
RECURSIVE Flatten(_)
Flatten(pages) == IF pages = <<>> THEN <<>> ELSE Head(pages) \o Flatten(Tail(pages))

\* (ts, id) of a comes before (ts, id) of b, with ts compared as instants
EvLess(a, b) == Before(a.Ts, b.Ts) \/ (a.Ts = b.Ts /\ a.ID < b.ID)

Ascending(items) == \A i \in 1..(Len(items) - 1) : EvLess(items[i], items[i + 1])

\* the stored events: each row with the instant its ts column was written for
StoredEvents ==
    {[ID |-> r.ID, Ts |-> CHOOSE t \in QueryTimes : FormatTime(t) = r.Ts, Type |-> r.Type] :
        r \in table}

\* the (ts, id) pairs the cursors of QueryCursors were made from
CursorPairs == {[Ts |-> Instant(9, 999999999), ID |-> 1]}

\* the cursor c was made from the pair p, in either encoding
MadeFrom(c, p) == c \in {EncodeCursor(p.Ts, p.ID), StdEncode(CursorText(p.Ts, p.ID))}

\* the stored events the caller's filter selects
Matching ==
    {e \in StoredEvents :
        /\ qFilter.Since # NilPtr => ~Before(e.Ts, qFilter.Since)
        /\ qFilter.Until # NilPtr => Before(e.Ts, qFilter.Until)
        /\ qFilter.Type \notin {NilStr, ""} => e.Type = qFilter.Type
        /\ \A p \in CursorPairs : MadeFrom(qFilter.Cursor, p) => EvLess(p, e)}

\* the limit a filter asks for
AskedLimit == IF qFilter.Limit <= 0 THEN defaultLimit ELSE qFilter.Limit

\* C24: a successful QueryEvents call returns items strictly ascending by
\* (ts, id), at most min(limit, maxLimit) of them, a limit <= 0 meaning
\* defaultLimit; next_cursor is null iff no further matching row exists, and
\* otherwise it encodes (ts, id) of the last item returned; the pages got by
\* following next_cursor hold matching rows only, each once, in order and
\* without a gap.
C24_QueryPages ==
    (qResult # NoCall /\ qResult.err = NoErr) =>
        LET items == qResult.Items
            all == Flatten(qPages)
            left == Matching \ Range(all)
        IN  /\ Ascending(items)
            /\ Len(items) <= AskedLimit
            /\ Len(items) <= maxLimit
            /\ Ascending(all)
            /\ Range(all) \subseteq Matching
            /\ \A x \in Range(all), m \in left : EvLess(x, m)
            /\ qResult.NextCursor = NilPtr <=> left = {}
            /\ qResult.NextCursor # NilPtr =>
                  /\ items # <<>>
                  /\ qResult.NextCursor
                        = EncodeCursor(items[Len(items)].Ts, items[Len(items)].ID)

\* a filter asked for more than maxLimit rows of a table with two events of one
\* instant, and the second page was the last
C24_Witness ==
    /\ qResult # NoCall
    /\ qResult.err = NoErr
    /\ qFilter.Limit > maxLimit
    /\ Len(qPages) = 2
    /\ Len(qPages[1]) = maxLimit
    /\ qPages[2] # <<>>
    /\ qResult.NextCursor = NilPtr
    /\ qPages[1][Len(qPages[1])].Ts = qPages[2][1].Ts

\* the cursor strings made from a timestamp and an id of the model: the URL
\* encoding and the standard encoding of "<canonical-ts>|<id>"
EncodingsOf(t, id) == {EncodeCursor(t, id), StdEncode(CursorText(t, id))}

\* a cursor of a known pair decodes to that pair
RoundTrip ==
    \A t \in Instants, id \in CursorIDs :
        curIn \in EncodingsOf(t, id) => curOut.err = NoErr /\ curOut.t = t /\ curOut.id = id

Rejected == curOut.err # NoErr /\ ErrInvalidCursor \in curOut.is

Numerals(n) == {Itoa(n)} \cup (IF n >= 0 THEN {<<"+">> \o Itoa(n), <<"0">> \o Itoa(n)} ELSE {})

\* the string is base64, in either encoding, of "<canonical-ts>|<numeral>"
DenotesPair(c, t, n) ==
    \E x \in Numerals(n) :
        c \in {RawURLEncode(FormatTime(t) \o <<"|">> \o x),
               StdEncode(FormatTime(t) \o <<"|">> \o x)}

C26_TextOrder ==
    rowA # NoCall =>
        /\ Len(rowA.Ts) = 30
        /\ Len(rowB.Ts) = 30
        /\ \A i \in 21..29 : IsDigit(rowA.Ts[i]) /\ IsDigit(rowB.Ts[i])
        /\ LexLess(rowA.Ts, rowB.Ts) <=> Before(tmA, tmB)
        /\ rowA.Ts = rowB.Ts <=> tmA = tmB

\* two instants half a second apart whose seconds are written "09" and "10"
C26_Witness ==
    /\ rowA # NoCall
    /\ tmA = Instant(9, 500000000)
    /\ tmB = Instant(10, 0)
    /\ LexLess(rowA.Ts, rowB.Ts)
    /\ ~LexLess(rowB.Ts, rowA.Ts)

\* eventCh has lost nothing in the step: what it held is still at its front
NothingTaken == Len(eventCh') >= Len(eventCh) /\ SubSeq(eventCh', 1, Len(eventCh)) = eventCh

\* C36, state part: at most one call of sender.Send is in flight, and one is in
\* flight only while Run is inside the flush it called.
C36_State ==
    /\ inFlight <= 1
    /\ inFlight = 1 <=> nPc = "send"

\* C36, step part: while a send is in flight and has not returned, a timer
\* firing leaves its token in flushCh and an Enqueue leaves its event in
\* eventCh: no event is taken from eventCh, no token from flushCh, and the
\* queue, the timer handle, the backoff state and the batch stay as they are;
\* the queue changes and a send starts only by a step of Run.
C36_Step ==
    /\ (nPc = "send" /\ sendLeft' = sendLeft) =>
           /\ NothingTaken
           /\ flushCh => flushCh'
           /\ UNCHANGED <<nPc, queue, timerHandle, batch, sendStart, inFlight,
                          backoffAttempt, backoffUntil, disabled>>
    /\ (queue' # queue \/ inFlight' > inFlight) => nPc = "select"

\* C36: the flushes of the notifier are strictly serialised.
C36_FlushesSerialised == []C36_State /\ [][C36_Step]_vars

\* during a send a timer has fired and an Enqueue has put an event in
\* eventCh: the token and the event wait (timers are armed by Run only, so a
\* timer is still due during a send only in the flush of Stop or cancellation)
C36_Witness ==
    /\ nPc = "send"
    /\ inFlight = 1
    /\ flushCh
    /\ eventCh # <<>>

(***************************************************************************)
(* Properties of the stream endpoint.                                      *)
(***************************************************************************)
\* the event frames among what the handler wrote before its loop
ReplayFrames == SelectSeq(sFrames, LAMBDA f : "id" \in DOMAIN f)

\* the stored event a frame carries
FrameEvent(f) == CHOOSE e \in StoredEvents : e.ID = f.data

\* the (ts, id) pairs the valid cursors of LastEventIDs were made from
StreamPairs == {[Ts |-> Instant(9, 0), ID |-> 1], [Ts |-> Instant(9, 999999999), ID |-> 1]}

\* the stored events strictly after the pair
After(p) == {e \in StoredEvents : EvLess(p, e)}

Min(a, b) == IF a < b THEN a ELSE b

Undecodable == sLastID # NoCall /\ sLastID # EmptyString /\ decodeCursor(sLastID).err # NoErr

C28_State ==
    Undecodable =>
        /\ ReplayFrames = <<>>
        /\ sStatus \in {0, 200}
        /\ sPc \in {"replay", "subscribe", "live", "unsub"}
        /\ (sPc = "subscribe" /\ subState[1] = "none") => ENABLED StreamSubscribe
        /\ (sPc = "subscribe" /\ subState[1] = "live") => ENABLED StreamConnected
        /\ (sPc = "live" /\ subEvents[1] # <<>>) => ENABLED StreamReceive

C28_Step ==
    (Undecodable /\ sPc = "replay" /\ streamVars' # streamVars) =>
        /\ sPc' = "subscribe"
        /\ sFrames' = sFrames
        /\ sStatus' = sStatus

\* C28: a Last-Event-ID that cannot be decoded gives no replay frame and no
\* error response: the replay ends at its first query with nothing written,
\* and the handler subscribes to the hub, writes its connected comment and
\* receives the events of its subscriber.
C28_BadCursorIgnored == []C28_State /\ [][C28_Step]_vars

\* after a Last-Event-ID that cannot be decoded the handler has written the
\* connected comment only and has received a live event
C28_Witness ==
    /\ Undecodable
    /\ sPc = "live"
    /\ sFrames = <<[comment |-> "connected"]>>
    /\ sStatus = 200
    /\ recv[1] # <<>>


\* the record of ip holds a lockout that has elapsed
LockExpired(ip) ==
    /\ failures[ip] # NilPtr
    /\ failures[ip].lockedAt # 0
    /\ Since(failures[ip].lockedAt) >= lockout

\* the window of the record of ip, which starts at its first failure, is open
WindowOpen(ip) == failures[ip] # NilPtr /\ aNow - failures[ip].firstAt <= window

\* the step is a failed authentication of ip / a successful one
FailureOf(ip) == aTotal'[ip] > aTotal[ip]

SuccessOf(ip) ==
    \E r \in Reqs :
        /\ reqPc[r] = "checked"
        /\ reqPc'[r] = "idle"
        /\ reqIn[r].ip = ip
        /\ reqIn[r].creds = "ok"

\* the step resets the record of ip: it is deleted or starts afresh
ResetOf(ip) ==
    /\ failures[ip] # NilPtr
    /\ IF failures'[ip] = NilPtr THEN TRUE
       ELSE \/ failures'[ip].count < failures[ip].count
            \/ failures'[ip].firstAt # failures[ip].firstAt
            \/ failures[ip].lockedAt # 0 /\ failures'[ip].lockedAt = 0

C38_Step ==
    \A ip \in IPs :
        /\ (LockExpired(ip) /\ WindowOpen(ip) /\ FailureOf(ip)) =>
               /\ failures'[ip] # NilPtr
               /\ failures'[ip].count = failures[ip].count + 1
               /\ failures'[ip].firstAt = failures[ip].firstAt
               /\ failures'[ip].lockedAt = aNow
               /\ IsLocked(ip)'
        /\ ResetOf(ip) =>
               \/ SuccessOf(ip)
               \/ FailureOf(ip) /\ ~WindowOpen(ip)

\* C38: once a lockout of an address has elapsed while the window of its
\* record, measured from its first failure, is still open, one more failed
\* authentication of the address locks it again at once; the record is reset
\* (deleted, or started afresh) only by a successful basic authentication or by
\* a failure that comes after the window has expired.
C38_RelockAfterExpiry == [][C38_Step]_vars

\* X was locked at its second failure, the lockout elapsed within the window,
\* and its third failure has locked it again
C38_Witness ==
    /\ maxFails = 2
    /\ failures["X"] # NilPtr
    /\ IF failures["X"] = NilPtr THEN FALSE
       ELSE /\ failures["X"].count = 3
            /\ failures["X"].lockedAt - failures["X"].firstAt >= lockout
            /\ failures["X"].lockedAt = aNow
    /\ IsLocked("X")

(***************************************************************************)
(* Properties of the end of a stream handler.                              *)
(***************************************************************************)
\* handleStream has returned: without a flusher, or after its deferred Unsubscribe
Returned == sPc = "returned" \/ (sPc = "unsub" /\ unsubCalls[1] > 0)

\* a case of the loop's select that returns is ready
ReturnCause ==
    /\ sPc = "live"
    /\ (sCtx \/ doneCloses[1] > 0 \/ (eventsCloses[1] > 0 /\ subEvents[1] = <<>>))

C37_State == Returned => (1 \notin clients \/ stopped)

C37_Step == Returned => (offered'[1] = offered[1] /\ Returned')

\* C37: when the request context is cancelled, or the subscriber's done or
\* events channel is closed, the stream handler returns; once it has returned
\* its subscriber is not in the hub's client set unless the hub has stopped,
\* and the hub offers it no further event.
C37_ReturnsUnsubscribed ==
    /\ []C37_State
    /\ [][C37_Step]_vars
    /\ ReturnCause ~> Returned

\* the client went away while the hub ran with the handler registered, and the
\* handler has returned through Unsubscribe, which took it out of the clients
C37_Witness ==
    /\ Returned
    /\ sCtx
    /\ subVia[1] = "register"
    /\ ~stopped
    /\ 1 \notin clients
    /\ eventsCloses[1] = 1
    /\ recv[1] # <<>>

(***************************************************************************)
(* Properties of InsertEvent.                                              *)
(***************************************************************************)
\* the event lacks a required field
Incomplete(e) == e.Type = "" \/ e.DedupeKey = "" \/ e.Ts = 0 \/ e.IngestedAt = 0

C40_State == \A i \in 1..Len(rows) : ~Incomplete(rows[i])

C40_Step ==
    (calls' # calls /\ Incomplete(calls'[1].ev)) =>
        /\ IsInvalidEvent(calls'[1].err)
        /\ ~calls'[1].inserted
        /\ calls'[1].id = 0
        /\ rows' = rows

\* C40: InsertEvent given an event with an empty type, an empty dedupe_key, a
\* zero ts or a zero ingested_at fails with an error that matches
\* ErrInvalidEvent and inserts nothing; no stored row has an empty type or
\* dedupe_key or a zero ts or ingested_at.
C40_InvalidEventRejected == []C40_State /\ [][C40_Step]_vars

\* with a row stored, an event that lacks only its ingested_at was refused
C40_Witness ==
    /\ rows # <<>>
    /\ Len(calls) = 1
    /\ IF Len(calls) = 1
       THEN /\ calls[1].ev.IngestedAt = 0
            /\ calls[1].ev.Type # ""
            /\ calls[1].ev.DedupeKey = "key-2"
            /\ calls[1].ev.Ts # 0
            /\ IsInvalidEvent(calls[1].err)
       ELSE FALSE

(***************************************************************************)
(* Properties of the routes of the server.                                 *)
(***************************************************************************)
\* the request carried a valid unexpired token: one this server issued for the
\* stream, DefaultTTL seconds or less before the request
TokenValid(a) ==
    /\ Len(srv.sseSecret) > 0
    /\ \/ a.token = "fresh"
       \/ a.token = "old" /\ Unix(a.at) <= DefaultTTL

StandardPaths == {"events", "now", "config", "auth/token"}

ReplayIDs == [i \in 1..Len(ReplayFrames) |-> ReplayFrames[i].data]

\* the ids of the events written to the client: by the replay, then by the
\* loop for each event received from the subscriber
WrittenIDs == ReplayIDs \o recv[1]

\* the handler is in its loop and nothing is on its way to it: the ingester
\* has published what it inserted, the hub has broadcast what was published,
\* the handler has read what it was sent, and backpressure dropped nothing
Settled ==
    /\ sPc = "live"
    /\ gPending = Nil
    /\ broadcast = <<>>
    /\ hubPc = "select"
    /\ subEvents[1] = <<>>
    /\ dropLog = {}
    /\ pubDropped = {}
    /\ pubLost = {}

\* C33: a client that reconnects with a valid Last-Event-ID and fewer than
\* missedEventsPageSize * missedEventsMaxPages events after it is written every
\* event stored after that cursor at least once, by the replay or by the loop,
\* also when the event is inserted and published between the last replay query
\* and the registration of the subscriber.
C33_NoGap ==
    \A p \in StreamPairs :
        (/\ sLastID # NoCall
         /\ sLastID = EncodeCursor(p.Ts, p.ID)
         /\ Cardinality(After(p)) < missedEventsPageSize * missedEventsMaxPages
         /\ Settled) =>
            \A e \in After(p) : e.ID \in Range(WrittenIDs)

NoRepeat(ids) == \A i, j \in 1..Len(ids) : ids[i] = ids[j] => i = j

\* C34 as stated: on one connection no event is written to the client twice.
C34_NeverTwice == NoRepeat(WrittenIDs)

\* C34: on one connection the replay writes no event twice and the loop writes
\* no event twice, so an event is written at most twice, once by each.
C34_TwiceAtMost ==
    /\ NoRepeat(ReplayIDs)
    /\ NoRepeat(recv[1])

\* an event inserted before the replay read it and broadcast after the handler
\* subscribed was written twice, beside an event written once by the loop
C34_Witness ==
    /\ \E id \in Range(ReplayIDs) : id \in Range(recv[1])
    /\ Len(recv[1]) = 2


(***************************************************************************)
(* Properties of the auth-failure limiter.                                 *)
(***************************************************************************)
\* C29: for every max_failures >= 1, a request that arrives once its address has
\* made max_failures failed authentications within window, and before lockout
\* has elapsed since the last of them, is answered 429 with a Retry-After
\* header whatever its credentials; one with correct credentials that arrives
\* after lockout has elapsed is accepted.
C29_LockedOutAtThreshold ==
    IF aLast = NoCall THEN TRUE
    ELSE /\ aLast.standing = "reached" =>
               aLast.status = 429 /\ aLast.retryAfter # NilStr
         /\ (aLast.standing = "elapsed" /\ aLast.creds = "ok") => aLast.status = 200

\* a client is locked only after max_failures failed authentications since its
\* last success, within window of each other
C30_State ==
    \A ip \in IPs :
        IsLocked(ip) =>
            /\ Len(aSince[ip]) >= maxFails
            /\ LastFailures(ip)[maxFails] - LastFailures(ip)[1] <= window

\* a request with correct credentials that passes the lockout check is
\* accepted and leaves no failure record of its address
C30_Step ==
    \A r \in Reqs :
        (reqPc[r] = "checked" /\ reqPc'[r] = "idle" /\ reqIn[r].creds = "ok") =>
            /\ failures'[reqIn[r].ip] = NilPtr
            /\ aLast'.status = 200

\* C30: a successful basic authentication of an address that is not locked out
\* clears its failure counter: afterwards the address is locked out only once it
\* has made max_failures further failures within a window.
C30_SuccessClears == []C30_State /\ [][C30_Step]_vars

\* a wrong password answered 401 although the address has failed max_failures
\* times within window in all, because a success came in between
C30_Witness ==
    /\ aLast # NoCall
    /\ aLast.status = 401
    /\ aLast.creds = "wrong"
    /\ maxFails >= 2
    /\ aTotal["X"] >= maxFails
    /\ aSince["X"] # <<>>
    /\ Len(aSince["X"]) < maxFails
    /\ aNow - 1 <= window
    /\ ~IsLocked("X")


(***************************************************************************)
(* Properties of the tokens.                                               *)
(***************************************************************************)
\* a <= b for instants
NotAfter(a, b) == ~Before(b, a)

\* the token was generated with scope sse and has been validated
Validated == tkGen # NoCall /\ tkVal # NoCall /\ tkGen.scope = ScopeSSE

\* the claims of a token generated at instant t with scope sse
ClaimsAt(t) == [Exp |-> Unix(t) + DefaultTTL, Iat |-> Unix(t), Scope |-> ScopeSSE]

\* C31: a token generated at t with secret s and scope sse validates with s,
\* returning claims of scope sse, iat t and exp t + 5 min, at any time up to
\* t + 5 min and is rejected as expired after that; with any other secret it is
\* rejected with InvalidSignature whatever the time; against another expected
\* scope it is rejected with InvalidScope.
C31_TokenLifetime ==
    Validated =>
        LET expiry == Add(tkGen.nowT, DefaultTTL)
        IN  /\ (tkVal.secret = tkGen.secret /\ tkVal.expectedScope = ScopeSSE
                   /\ NotAfter(tkVal.nowT, expiry)) =>
                  tkVal.out = [claims |-> ClaimsAt(tkGen.nowT), err |-> NoErr]
            /\ (tkVal.secret = tkGen.secret /\ tkVal.expectedScope = ScopeSSE
                   /\ Before(expiry, tkVal.nowT)) =>
                  tkVal.out.err = ErrTokenExpired
            /\ tkVal.secret # tkGen.secret => tkVal.out.err = ErrInvalidSignature
            /\ (tkVal.secret = tkGen.secret /\ tkVal.expectedScope # ScopeSSE
                   /\ NotAfter(tkVal.nowT, expiry)) =>
                  tkVal.out.err = ErrInvalidScope

\* the secret of the validation makes the key the token was signed with
SameKey == hmacKey(tkVal.secret) = hmacKey(tkGen.secret)

\* C31 (amended): with iat the Unix second of t and exp = iat + 300, the token
\* validates with a secret of the same key while the Unix second of the
\* validation is at most exp, and is rejected as expired from the next second
\* on; an empty secret is refused as such, every other secret of another key
\* gives InvalidSignature whatever the time; another expected scope gives
\* InvalidScope while the token has not expired.
C31_TokenLifetimeUnix ==
    Validated =>
        LET exp == Unix(tkGen.nowT) + DefaultTTL
        IN  /\ tkVal.secret = <<>> => tkVal.out.err = ErrEmptySecret
            /\ (tkVal.secret # <<>> /\ ~SameKey) => tkVal.out.err = ErrInvalidSignature
            /\ (tkVal.secret # <<>> /\ SameKey /\ Unix(tkVal.nowT) > exp) =>
                  tkVal.out.err = ErrTokenExpired
            /\ (tkVal.secret # <<>> /\ SameKey /\ Unix(tkVal.nowT) <= exp
                   /\ tkVal.expectedScope # ScopeSSE) =>
                  tkVal.out.err = ErrInvalidScope
            /\ (tkVal.secret # <<>> /\ SameKey /\ Unix(tkVal.nowT) <= exp
                   /\ tkVal.expectedScope = ScopeSSE) =>
                  tkVal.out = [claims |-> ClaimsAt(tkGen.nowT), err |-> NoErr]
            /\ tkVal.out.err # NoErr => tkVal.out.claims = NoClaims

\* a token accepted half a second after t + 5 min, in the second of its exp
C31_Witness ==
    /\ Validated
    /\ tkVal.secret = tkGen.secret
    /\ tkVal.expectedScope = ScopeSSE
    /\ Before(Add(tkGen.nowT, DefaultTTL), tkVal.nowT)
    /\ Unix(tkVal.nowT) = Unix(tkGen.nowT) + DefaultTTL
    /\ tkVal.out.err = NoErr
    /\ tkVal.out.claims.Exp = Unix(tkGen.nowT) + DefaultTTL


(***************************************************************************)
(* Properties of the source adapter.                                       *)
(***************************************************************************)
\* the events the task has put on eventCh, and those with the one it holds
Forwarded == outEv \o srcEventCh

Taken == Forwarded \o (IF adPc = "sendEv" THEN <<adHand>> ELSE <<>>)

\* what was put on errCh keeps the order of the watcher
InOrder(q) == \A i, j \in 1..Len(q) : i < j => q[i] < q[j]

C32_State ==
    /\ Taken = SubSeq(recvEv, 1, Len(Taken))
    /\ \/ Len(Taken) = Len(recvEv)
       \/ adPc = "exited" /\ adCtxDone /\ Len(Taken) + 1 = Len(recvEv)
    /\ Len(srcEventCh) <= eventBufferSize
    /\ Len(srcErrCh) <= errorBufferSize
    /\ InOrder(outEr \o srcErrCh)
    /\ Len(outEr \o srcErrCh) + droppedErrors + lostErrors = Len(recvEr)
    /\ lostErrors > 0 => adCtxDone
    /\ srcClosed <=> adPc = "exited"

C32_Step ==
    /\ (adPc = "sendEv" /\ adPc' # "sendEv") =>
           \/ srcEventCh' = Append(srcEventCh, adHand)
           \/ adCtxDone /\ adPc' = "exited"
    /\ droppedErrors' # droppedErrors =>
           /\ droppedErrors' = droppedErrors + 1
           /\ Len(srcErrCh) = errorBufferSize
           /\ srcErrCh' = srcErrCh

\* C32: the source adapter puts every event of the watcher on its event channel
\* in the watcher's order and drops none: with the channel full it stays at its
\* send until there is space or the context is cancelled; an error of the
\* watcher is dropped and counted when the error channel is full; both channels
\* are closed when the task exits, and only then.
C32_ForwardsInOrder == []C32_State /\ [][C32_Step]_vars

\* the task waits at its send on a full event channel, after an error was
\* dropped on a full error channel
C32_Witness ==
    /\ adPc = "sendEv"
    /\ Len(srcEventCh) = eventBufferSize
    /\ ~adCtxDone
    /\ outEv # <<>>
    /\ droppedErrors > 0

====
